---- MODULE Spec2Model ----
(***************************************************************************)
(* HRAssistant frontend: the expandable card factory (makeCard) and the    *)
(* page controller that binds the jobs collection of the REST backend to   *)
(* a rendered list of cards (src/frontend/cards.js).                       *)
(*                                                                         *)
(* SpecCard  : one card, its construction, its header toggles and the      *)
(*             hooks it invokes; a hook is caller code and may itself      *)
(*             toggle the card (header.click()) before it returns.         *)
(* SpecJobs  : the jobs page: init, list loads, create, edit, delete and   *)
(*             the job selector, as asynchronous handlers that interleave  *)
(*             at their awaits, against a server holding the jobs.         *)
(* SpecEdit  : the same page and handlers, explored deeper for a user who  *)
(*             only works on the job cards (Edit/Save, typing, Delete).    *)
(***************************************************************************)
EXTENDS Integers, Sequences, FiniteSets, TLC

(* ------------------------------ bounds --------------------------------- *)
\* header toggles (user or hook triggered) explored per card
MaxToggles == 4
\* nesting depth of hook invocations explored (a hook toggling inside a hook)
MaxDepth == 3

(* ----------------------- JavaScript values ----------------------------- *)
\* the values passed as `id`: undefined (also the no-argument call, through
\* the `= {}` default), null, '', 0, and two truthy ones
JsUndefined == [t |-> "undefined", s |-> "", n |-> 0]
JsNull == [t |-> "null", s |-> "", n |-> 0]
JsStr(x) == [t |-> "string", s |-> x, n |-> 0]
JsNum(x) == [t |-> "number", s |-> "", n |-> x]
IdValues == {JsUndefined, JsNull, JsStr(""), JsNum(0), JsStr("job-1"), JsNum(7)}

\* variant: only undefined, null and '' are rejected (0 passes)
Truthy_zeroPasses(v) ==
  CASE v.t = "undefined" -> FALSE
    [] v.t = "null" -> FALSE
    [] v.t = "string" -> v.s # ""
    [] v.t = "number" -> TRUE

\* ToBoolean of the language, on the values above
Truthy(v) ==
  CASE v.t = "undefined" -> FALSE
    [] v.t = "null" -> FALSE
    [] v.t = "string" -> v.s # ""
    [] v.t = "number" -> v.n # 0

\* keys a keydown on the header may carry
Keys == {"Enter", " ", "Tab"}

(* ------------------------------ state ---------------------------------- *)
VARIABLES
  phase,      \* "none": makeCard not called; "threw"; "building": inside makeCard; "live": returned
  cfg,        \* the argument of makeCard
  mkpc,       \* position inside makeCard: "init" | "initial" | "return" | "done"
  didInit,    \* the closure variable of makeCard
  expanded,   \* root.classList.contains('expanded')
  aria,       \* aria-expanded attribute of the header: "absent" | "false" | "true"
  stack,      \* hook invocations that have not returned yet, innermost last
  nInit, nExpand, nCollapse,  \* invocations of the three hooks so far
  nToggle,    \* calls of onToggle so far
  atReturn    \* what makeCard returned with: [expanded, nExpand, nCollapse, nToggle]

cardVars == <<phase, cfg, mkpc, didInit, expanded, aria, stack,
              nInit, nExpand, nCollapse, nToggle, atReturn>>

\* state of the page controller (jobs page, selector, modals)
VARIABLES
  srvJobs,     \* the jobs table of the server, in listing order
  srvNextId,   \* number of jobs the server has created so far
  srvCands,    \* the candidates table of the server
  cards,       \* job card objects alive in the page: key -> card
  jobList,     \* keys of the cards mounted in #jobs-list, in order
  candList,    \* keys of the cards mounted in #candidates-list, in order
  sel,         \* #search-job-select: [options, value]
  searchInfo,  \* text of #search-info
  page,        \* the page carrying class 'visible' ("none" before the first showPage)
  modal,       \* [backdrop, job, cand]: TRUE = visible (class 'hidden' absent)
  formJob,     \* field values of #form-add-job
  run,         \* handlers suspended at an await, oldest first
  alertNow,    \* the message of the alert() box on screen, "" when there is none
  faults,      \* what became of failed requests that raised no alert: "uncaught", "silent"
  budget       \* user events (clicks, typing, submits) still to be explored

jobsVars == <<srvJobs, srvNextId, srvCands, cards, jobList, candList,
              sel, searchInfo, page, modal, formJob, run, alertNow, faults, budget>>

\* state of the candidates page (candidate cards, documents, add-candidate form)
VARIABLES
  srvDocs,     \* the documents table of the server
  srvNextCand, \* number of candidates the server has created so far
  ccards,      \* candidate card objects alive in the page: key -> card
  formCand     \* field values of #form-add-candidate: [candidate_name, cv_file]

candVars == <<srvDocs, srvNextCand, ccards, formCand>>

vars == <<cardVars, jobsVars, candVars>>

NoCfg == [id |-> JsUndefined, onInit |-> FALSE, onExpand |-> FALSE,
          onCollapse |-> FALSE, initiallyExpanded |-> FALSE]
NoReturn == [expanded |-> FALSE, nExpand |-> 0, nCollapse |-> 0, nToggle |-> 0]

\* a hook invocation: which hook, whether the root carried 'expanded'
\* immediately before the doExpand/doCollapse (or makeCard step) that invoked
\* it, and the class and attribute the hook finds when it is entered
Frame(h, pre) == [hook |-> h, pre |-> pre, cls |-> expanded', aria |-> aria']

\* no card has been made yet
CardOff ==
  /\ phase = "none" /\ cfg = NoCfg /\ mkpc = "done" /\ didInit = FALSE
  /\ expanded = FALSE /\ aria = "absent" /\ stack = <<>>
  /\ nInit = 0 /\ nExpand = 0 /\ nCollapse = 0 /\ nToggle = 0
  /\ atReturn = NoReturn

(* --------------------------- card factory ------------------------------ *)
\* toggleExpanded(root, expanded): the class and, on collapse only, the
\* accessibility attribute of the header
\* variant: line 16 active, the attribute follows the class
ToggleExpandedAria_symmetric(target, a) == IF target THEN "true" ELSE "false"
ToggleExpandedAria(target, a) == IF target THEN a ELSE "false"
toggleExpanded(target) ==
  /\ expanded' = target
  /\ aria' = ToggleExpandedAria(target, aria)

\* variant: the card initialises lazily, on every expand
doExpand_reinit ==
  /\ toggleExpanded(TRUE)
  /\ IF cfg.onExpand
       THEN /\ nExpand' = nExpand + 1
            /\ stack' = Append(stack, Frame("onExpand", expanded))
       ELSE UNCHANGED <<nExpand, stack>>
  /\ nInit' = IF cfg.onInit THEN nInit + 1 ELSE nInit
  /\ UNCHANGED <<nCollapse>>

\* doExpand: visual state first, then the hook when it is a function
doExpand ==
  /\ toggleExpanded(TRUE)
  /\ IF cfg.onExpand
       THEN /\ nExpand' = nExpand + 1
            /\ stack' = Append(stack, Frame("onExpand", expanded))
       ELSE UNCHANGED <<nExpand, stack>>
  /\ UNCHANGED <<nCollapse, nInit>>

\* variant: the hook is called before the class is removed
doCollapse_hookFirst ==
  /\ toggleExpanded(FALSE)
  /\ IF cfg.onCollapse
       THEN /\ nCollapse' = nCollapse + 1
            /\ stack' = Append(stack, [hook |-> "onCollapse", pre |-> expanded,
                                        cls |-> expanded, aria |-> aria])
       ELSE UNCHANGED <<nCollapse, stack>>
  /\ UNCHANGED <<nExpand, nInit>>

\* doCollapse: visual state first, then the hook when it is a function
doCollapse ==
  /\ toggleExpanded(FALSE)
  /\ IF cfg.onCollapse
       THEN /\ nCollapse' = nCollapse + 1
            /\ stack' = Append(stack, Frame("onCollapse", expanded))
       ELSE UNCHANGED <<nCollapse, stack>>
  /\ UNCHANGED <<nExpand, nInit>>

\* variant: the target state is computed without the negation
onToggle_noFlip ==
  /\ nToggle' = nToggle + 1
  /\ LET isNowExpanded == expanded IN
       IF isNowExpanded THEN doExpand ELSE doCollapse
  /\ UNCHANGED <<phase, cfg, mkpc, didInit, atReturn>>

\* onToggle: the target state is the negation of the current class
onToggle ==
  /\ nToggle' = nToggle + 1
  /\ LET isNowExpanded == ~expanded IN
       IF isNowExpanded THEN doExpand ELSE doCollapse
  /\ UNCHANGED <<phase, cfg, mkpc, didInit, atReturn>>

\* variant: the root is created with the initial class already applied
makeCard_begin_classEarly(c) ==
  /\ phase = "none"
  /\ cfg' = c
  /\ IF ~Truthy(c.id)
       THEN /\ phase' = "threw"
            /\ UNCHANGED <<mkpc, didInit, expanded, aria, stack, nInit>>
       ELSE /\ phase' = "building"
            /\ expanded' = c.initiallyExpanded
            /\ aria' = "false"
            /\ didInit' = TRUE
            /\ mkpc' = "initial"
            /\ IF ~didInit /\ c.onInit
                 THEN /\ nInit' = nInit + 1
                      /\ stack' = Append(stack, Frame("onInit", FALSE))
                 ELSE UNCHANGED <<nInit, stack>>
  /\ UNCHANGED <<nExpand, nCollapse, nToggle, atReturn>>
  /\ UNCHANGED <<jobsVars, candVars>>

\* makeCard, lines 23-82: the id check, the DOM of the card, the listeners
\* and the init-once block, up to the call of onInit
makeCard_begin(c) ==
  /\ phase = "none"
  /\ cfg' = c
  /\ IF ~Truthy(c.id)
       THEN /\ phase' = "threw"
            /\ UNCHANGED <<mkpc, didInit, expanded, aria, stack, nInit>>
       ELSE /\ phase' = "building"
            /\ expanded' = FALSE
            /\ aria' = "false"
            /\ didInit' = TRUE
            /\ mkpc' = "initial"
            /\ IF ~didInit /\ c.onInit
                 THEN /\ nInit' = nInit + 1
                      /\ stack' = Append(stack, Frame("onInit", FALSE))
                 ELSE UNCHANGED <<nInit, stack>>
  /\ UNCHANGED <<nExpand, nCollapse, nToggle, atReturn>>
  /\ UNCHANGED <<jobsVars, candVars>>

\* variant: the collapsed initial state is applied through doCollapse
makeCard_initial_collapseHook ==
  /\ phase = "building" /\ mkpc = "initial" /\ stack = <<>>
  /\ mkpc' = "return"
  /\ IF cfg.initiallyExpanded THEN doExpand ELSE doCollapse
  /\ UNCHANGED <<phase, cfg, didInit, nToggle, atReturn>>
  /\ UNCHANGED <<jobsVars, candVars>>

\* makeCard, lines 84-89: the initial state, once onInit has returned
makeCard_initial ==
  /\ phase = "building" /\ mkpc = "initial" /\ stack = <<>>
  /\ mkpc' = "return"
  /\ IF cfg.initiallyExpanded
       THEN doExpand
       ELSE /\ toggleExpanded(FALSE)
            /\ UNCHANGED <<stack, nInit, nExpand, nCollapse>>
  /\ UNCHANGED <<phase, cfg, didInit, nToggle, atReturn>>
  /\ UNCHANGED <<jobsVars, candVars>>

\* makeCard, line 91: the root is handed to the caller
makeCard_return ==
  /\ phase = "building" /\ mkpc = "return" /\ stack = <<>>
  /\ phase' = "live" /\ mkpc' = "done"
  /\ atReturn' = [expanded |-> expanded, nExpand |-> nExpand,
                  nCollapse |-> nCollapse, nToggle |-> nToggle]
  /\ UNCHANGED <<cfg, didInit, expanded, aria, stack,
                 nInit, nExpand, nCollapse, nToggle>>
  /\ UNCHANGED <<jobsVars, candVars>>

\* the click listener of the header
header_click ==
  /\ phase = "live" /\ stack = <<>>
  /\ nToggle < MaxToggles
  /\ onToggle
  /\ UNCHANGED <<jobsVars, candVars>>

\* the keydown listener of the header: Enter and Space toggle
header_keydown(key) ==
  /\ phase = "live" /\ stack = <<>>
  /\ nToggle < MaxToggles
  /\ IF key = "Enter" \/ key = " "
       THEN onToggle
       ELSE UNCHANGED cardVars
  /\ UNCHANGED <<jobsVars, candVars>>

\* a running hook clicks the header of its card (the listeners are wired
\* before onInit is called, line 70)
hook_toggle ==
  /\ stack # <<>>
  /\ Len(stack) < MaxDepth
  /\ nToggle < MaxToggles
  /\ onToggle
  /\ UNCHANGED <<jobsVars, candVars>>

\* a running hook returns to its caller
hook_return ==
  /\ stack # <<>>
  /\ stack' = SubSeq(stack, 1, Len(stack) - 1)
  /\ UNCHANGED <<phase, cfg, mkpc, didInit, expanded, aria,
                 nInit, nExpand, nCollapse, nToggle, atReturn>>
  /\ UNCHANGED <<jobsVars, candVars>>

Configs == [id : IdValues, onInit : BOOLEAN, onExpand : BOOLEAN,
            onCollapse : BOOLEAN, initiallyExpanded : BOOLEAN]

(* ======================= page controller: jobs ========================= *)
(* ------------------------------ bounds --------------------------------- *)
\* jobs the server ever holds, deleted ones included (ids are never reused)
MaxJobIds == 3
\* jobs on the server when the page is loaded
MaxInitJobs == 2
\* handlers simultaneously suspended at an await
MaxInFlight == 2
\* user events (clicks, typing, form submits) explored on the whole page
MaxOps == 3
\* user events explored when the user only works on the job cards
MaxEditOps == 5
\* documents and candidates the server ever holds
MaxDocIds == 2
MaxCandIds == 2
\* user events explored when the user only works on a candidate card's CV
MaxCvOps == 4
\* user events explored when the user only creates jobs and candidates
MaxCreateOps == 3
\* user events explored when the user only deletes jobs and candidates
MaxDeleteOps == 3
\* user events explored when the user only works with the job selector
MaxSelectOps == 3
\* user events explored when the user creates a job and searches with it
MaxE2EOps == 5
\* user events explored when the user only works with the two modals
MaxModalOps == 5
\* user events explored on the earlier version of the controller
MaxV1Ops == 4

(* ------------------------------- text ---------------------------------- *)
\* a string is a sequence of atoms: a markup-significant character, or a run
\* of ordinary text kept as one atom
Specials == {"&", "<", ">", "\""}
EntityOf(c) ==
  CASE c = "&" -> "&amp;" [] c = "<" -> "&lt;" [] c = ">" -> "&gt;" [] c = "\"" -> "&quot;"
CharOf(e) ==
  CASE e = "&amp;" -> "&" [] e = "&lt;" -> "<" [] e = "&gt;" -> ">" [] e = "&quot;" -> "\""
    [] OTHER -> e

\* length of the maximal prefix of s made of markup-significant characters
RECURSIVE RunLen(_)
RunLen(s) ==
  IF s = <<>> \/ Head(s) \notin Specials THEN 0 ELSE 1 + RunLen(Tail(s))

\* escapeHtml: String(s || '').replace(/[&<>"]+/g, c => map[c]); the pattern
\* matches a whole run, and a run of two or more characters is not a key of
\* the map, so it is replaced by the text 'undefined'
RECURSIVE escapeHtml(_)
escapeHtml(s) ==
  IF s = <<>> THEN <<>>
  ELSE IF Head(s) \notin Specials THEN <<Head(s)>> \o escapeHtml(Tail(s))
  ELSE LET n == RunLen(s) IN
         <<IF n = 1 THEN EntityOf(Head(s)) ELSE "undefined">>
           \o escapeHtml(SubSeq(s, n + 1, Len(s)))

\* what the HTML parser makes of escaped text in element content or in a
\* double-quoted attribute value
HtmlText(h) == [i \in DOMAIN h |-> CharOf(h[i])]

\* what a user types into the title, company and description fields (the
\* jobs the server starts with hold other values, see JobsInit)
Entries ==
  {[job_title |-> <<"R", "&", "D">>, company_name |-> <<>>, job_description |-> <<"a", "<", "b">>]}

Job(id, t, c, d) == [id |-> id, job_title |-> t, company_name |-> c, job_description |-> d]
\* the id the server gives to its n-th job
JobId(n) == ToString(n)
NoJob == Job("", <<>>, <<>>, <<>>)
EmptyForm == [job_title |-> <<>>, company_name |-> <<>>, job_description |-> <<>>]

\* a response: not yet answered ("pending"), 2xx ("ok"), non-2xx with a JSON
\* error body ("http"), or a rejected fetch ("neterr"); the listing of a GET,
\* the id of a created job
Resp(kind, items, id) == [kind |-> kind, items |-> items, id |-> id]
Pending == Resp("pending", <<>>, "")
RespKinds == {"ok", "http", "neterr"}

\* a suspended handler: the listener it belongs to, the await it waits at,
\* the request it sent, the response once the server has answered, and what
\* its closure holds (the card; the body of the PATCH; the id of the new job)
\* `before` is not part of the closure: it records, for the Save branch,
\* the record and the header of the card as they were when Save was clicked
NoBefore == [job |-> NoJob, title |-> <<>>, subtitle |-> <<>>]
Handler(op, at, req, card, sent, jobId) ==
  [op |-> op, at |-> at, req |-> req, resp |-> Pending,
   card |-> card, sent |-> sent, jobId |-> jobId, before |-> NoBefore]
Req(method, path, id) == [method |-> method, path |-> path, id |-> id]
GetJobs == Req("GET", "/jobs", "")
GetCandidates == Req("GET", "/candidates", "")

SeqToSet(q) == {q[i] : i \in DOMAIN q}
Ids(q) == [i \in DOMAIN q |-> q[i].id]
\* Array.prototype.find on j.id === v
Find(jobs, v) ==
  IF \E i \in DOMAIN jobs : jobs[i].id = v
    THEN jobs[CHOOSE i \in DOMAIN jobs : jobs[i].id = v /\ \A k \in 1..(i - 1) : jobs[k].id # v]
    ELSE NoJob
RECURSIVE Without(_, _)
Without(q, id) ==
  IF q = <<>> THEN <<>>
  ELSE IF Head(q).id = id THEN Without(Tail(q), id)
  ELSE <<Head(q)>> \o Without(Tail(q), id)

\* a row of the candidates table; candidate_cv_id "" stands for NULL
Cand(id, name, cv) == [id |-> id, candidate_name |-> name, candidate_cv_id |-> cv]
\* the id the server gives to its n-th candidate, to its n-th document
CandId(n) == "c" \o ToString(n)
DocId(n) == "d" \o ToString(n)
\* a row of the documents table; content "" stands for NULL and for ''
Doc(id, content) == [id |-> id, content |-> content]
\* no file chosen in #form-add-candidate (no File entry named cv_file)
NoFile == "(no file)"
EmptyCandForm == [candidate_name |-> <<>>, cv_file |-> NoFile]

\* no candidate, no document, the add-candidate form untouched
CandOff ==
  /\ srvDocs = <<>> /\ srvNextCand = 0
  /\ ccards = <<>> /\ formCand = EmptyCandForm

\* the page whose markup carries 'visible' when the script starts
InitialPages == {"home", "jobs"}

\* the page when the controller script has run up to the first await of
\* init(): n jobs on the server, page p visible, b user events to explore
Start(n, p, b) ==
  /\ srvNextId = n
  /\ srvJobs = [i \in 1..n |-> Job(JobId(i), <<"Engineer">>, <<"Acme">>, <<"builds">>)]
  /\ srvCands = <<>>
  /\ cards = <<>> /\ jobList = <<>> /\ candList = <<>>
  /\ sel = [options |-> <<>>, value |-> ""]
  /\ searchInfo = <<>>
  /\ page = p
  /\ modal = [backdrop |-> FALSE, job |-> FALSE, cand |-> FALSE]
  /\ formJob = EmptyForm
  /\ run = <<Handler("init", "loadJobs.fetchJobs", GetJobs, 0, EmptyForm, "")>>
  /\ alertNow = "" /\ faults = {}
  /\ budget = b
  /\ CandOff

JobsInit == CardOff /\ \E n \in 0..MaxInitJobs, p \in InitialPages : Start(n, p, MaxOps)

EditInit == CardOff /\ Start(1, "jobs", MaxEditOps)

\* the jobs page before the controller script has run
JobsOff ==
  /\ srvJobs = <<>> /\ srvNextId = 0 /\ srvCands = <<>>
  /\ cards = <<>> /\ jobList = <<>> /\ candList = <<>>
  /\ sel = [options |-> <<>>, value |-> ""]
  /\ searchInfo = <<>> /\ page = "none"
  /\ modal = [backdrop |-> FALSE, job |-> FALSE, cand |-> FALSE]
  /\ formJob = EmptyForm /\ run = <<>>
  /\ alertNow = "" /\ faults = {} /\ budget = 0
  /\ CandOff

(* --------------------------- pure helpers ------------------------------ *)
RunSet(i, h) == [run EXCEPT ![i] = h]
RunDel(i) == SubSeq(run, 1, i - 1) \o SubSeq(run, i + 1, Len(run))

\* the listeners of a candidate card (the others belong to job cards or to
\* the page)
CandOps == {"expand", "cvExpand", "upload", "candDelete"}
\* job cards a suspended handler still holds in its closure
Referenced(r) == {r[i].card : i \in {n \in DOMAIN r : r[n].op \notin CandOps}} \ {0}
\* candidate cards a suspended handler still holds in its closure
CandReferenced(r) == {r[i].card : i \in {n \in DOMAIN r : r[n].op \in CandOps}} \ {0}
\* the card objects still reachable: mounted, or held by a closure
Keep(cs, list, r) ==
  [k \in (SeqToSet(list) \cup Referenced(r)) \cap DOMAIN cs |-> cs[k]]
KeepCand(cs, list, r) ==
  [k \in (SeqToSet(list) \cup CandReferenced(r)) \cap DOMAIN cs |-> cs[k]]
\* the n smallest keys not in use
RECURSIVE FreshKeys(_, _)
FreshKeys(used, n) ==
  IF n = 0 THEN <<>>
  ELSE LET k == CHOOSE x \in 1..(Cardinality(used) + 1) : x \notin used IN
         <<k>> \o FreshKeys(used \cup {k}, n - 1)

\* buildJobCard, onInit: header, the three disabled fields, the Edit button
buildJobCard(job) ==
  [job |-> job,
   title |-> HtmlText(escapeHtml(job.job_title)),
   subtitle |-> HtmlText(escapeHtml(job.company_name)),
   vTitle |-> HtmlText(escapeHtml(job.job_title)),
   vCompany |-> HtmlText(escapeHtml(job.company_name)),
   vDesc |-> HtmlText(escapeHtml(job.job_description)),
   disabled |-> TRUE,
   btn |-> "Edit"]

\* buildCandidateCard, onInit of the card and of the nested CV card: the
\* header, both cards collapsed, the <pre data-f-cv> empty. nFetch is not in
\* the page: it counts the document fetches the two onExpand hooks of this
\* card have issued since the card was built or a file was last chosen
buildCandidateCard(c) ==
  [c |-> c,
   title |-> HtmlText(escapeHtml(IF c.candidate_name # <<>> THEN c.candidate_name
                                 ELSE <<"(Unnamed)">>)),
   expanded |-> FALSE,
   cvExpanded |-> FALSE,
   pre |-> "",
   nFetch |-> 0]

\* buildFn(it), buildFn being buildJobCard or buildCandidateCard
Build(buildFn, it) ==
  IF buildFn = "buildJobCard" THEN buildJobCard(it) ELSE buildCandidateCard(it)

\* a list container: the card objects alive (key -> card) and the keys of
\* those mounted in the container, in order
Container(nodes, list) == [nodes |-> nodes, list |-> list]

\* renderList(container, items, buildFn): the container is emptied and one
\* new card is appended per item; `held` are the old cards that closures of
\* suspended handlers keep alive
RenderedKeys(items, held) == FreshKeys(held, Len(items))
renderList_append(container, items, buildFn, held) ==
  LET old == (SeqToSet(container.list) \cup held) \cap DOMAIN container.nodes
      keys == FreshKeys(old, Len(items))
  IN Container([k \in old \cup SeqToSet(keys) |->
                  IF k \in old THEN container.nodes[k]
                  ELSE Build(buildFn, items[CHOOSE i \in DOMAIN keys : keys[i] = k])],
               container.list \o keys)
renderList(container, items, buildFn, held) ==
  LET keys == RenderedKeys(items, held) IN
    Container([k \in held \cup SeqToSet(keys) |->
                 IF k \in held THEN container.nodes[k]
                 ELSE Build(buildFn, items[CHOOSE i \in DOMAIN keys : keys[i] = k])],
              keys)

\* assignment to select.value: an option with that value becomes selected,
\* otherwise no option is selected and the value reads ''
SetSelectValue(options, v) ==
  IF \E i \in DOMAIN options : options[i].value = v THEN v ELSE ""

\* the separator of an option label: space, U+2014 (em dash), space
LabelSep == " -- "
\* the text of an option: title, and company after the separator when truthy
OptionLabel(j) ==
  j.job_title \o (IF j.company_name # <<>> THEN <<LabelSep>> \o j.company_name ELSE <<>>)

\* updateSearchInfo(job)
updateSearchInfo(job) ==
  IF job = NoJob THEN <<"No job selected.">>
  ELSE <<"Selected: ">> \o job.job_title
         \o (IF job.company_name # <<>> THEN <<" @ ">> \o job.company_name ELSE <<>>)

\* ensureSearchJobs after its fetch: the options are rebuilt, the first one
\* is selected, the previous value is restored when it is still an option
EnsureSelect_firstOnly(jobs, s) ==
  LET options == [i \in DOMAIN jobs |-> [value |-> jobs[i].id, label |-> OptionLabel(jobs[i])]]
  IN [options |-> options, value |-> IF options # <<>> THEN options[1].value ELSE ""]
EnsureSelect(jobs, s) ==
  LET curr == s.value
      options == [i \in DOMAIN jobs |-> [value |-> jobs[i].id, label |-> OptionLabel(jobs[i])]]
      v0 == IF options # <<>> THEN options[1].value ELSE ""
      v1 == IF jobs # <<>> /\ v0 = "" THEN SetSelectValue(options, jobs[1].id) ELSE v0
      v2 == IF curr # "" /\ (\E i \in DOMAIN options : options[i].value = curr)
              THEN SetSelectValue(options, curr) ELSE v1
  IN [options |-> options, value |-> v2]
EnsureInfo(jobs, s) == updateSearchInfo(Find(jobs, EnsureSelect(jobs, s).value))

\* fetchJobs: the status is not looked at; an error body has no `jobs`
\* member, so `data.jobs || []` is the empty list; a rejected fetch throws
FetchJobsThrows(resp) == resp.kind = "neterr"
FetchJobsValue(resp) == IF resp.kind = "ok" THEN resp.items ELSE <<>>

\* a failed GET that fetchJobs turned into an empty list
SilentLog(h) == IF h.resp.kind = "http" THEN {"silent"} ELSE {}

\* handler i can resume: its response is there and no alert() box blocks
\* the page's thread
Answered(i) == i \in DOMAIN run /\ run[i].resp.kind # "pending" /\ alertNow = ""
Await(h, at, req) == [h EXCEPT !.at = at, !.req = req, !.resp = Pending]

(* ------------------------------ server --------------------------------- *)
\* what a candidates-page listener sends: the name and the file of the
\* add-candidate form or of the CV file input, the document id to link
CandSent(name, file, cv) == [candidate_name |-> name, file |-> file, candidate_cv_id |-> cv]
GetDocument(id) == Req("GET", "/documents", id)

\* the server (or the network, for "neterr") answers the request of handler i
server_answer(i, kind) ==
  /\ i \in DOMAIN run /\ run[i].resp = Pending
  /\ LET q == run[i].req
         sent == run[i].sent
         exists == \E n \in DOMAIN srvJobs : srvJobs[n].id = q.id
         candExists == \E n \in DOMAIN srvCands : srvCands[n].id = q.id
         docExists == \E n \in DOMAIN srvDocs : srvDocs[n].id = q.id
         fails == Resp(kind, <<>>, "")
     IN
     \/ /\ q = GetJobs
        /\ run' = RunSet(i, [run[i] EXCEPT !.resp =
                     IF kind = "ok" THEN Resp("ok", srvJobs, "") ELSE fails])
        /\ UNCHANGED <<srvJobs, srvNextId, srvCands, srvDocs, srvNextCand>>
     \/ /\ q = GetCandidates
        /\ run' = RunSet(i, [run[i] EXCEPT !.resp =
                     IF kind = "ok" THEN Resp("ok", srvCands, "") ELSE fails])
        /\ UNCHANGED <<srvJobs, srvNextId, srvCands, srvDocs, srvNextCand>>
     \/ /\ q.method = "POST" /\ q.path = "/jobs"
        /\ kind = "ok" => srvNextId < MaxJobIds
        /\ IF kind = "ok"
             THEN /\ srvNextId' = srvNextId + 1
                  /\ srvJobs' = Append(srvJobs,
                        Job(JobId(srvNextId + 1), sent.job_title,
                            sent.company_name, sent.job_description))
                  /\ run' = RunSet(i, [run[i] EXCEPT !.resp =
                               Resp("ok", <<>>, JobId(srvNextId + 1))])
             ELSE /\ run' = RunSet(i, [run[i] EXCEPT !.resp = fails])
                  /\ UNCHANGED <<srvJobs, srvNextId>>
        /\ UNCHANGED <<srvCands, srvDocs, srvNextCand>>
     \/ /\ q.method = "PATCH" /\ q.path = "/jobs"
        /\ kind = "ok" => exists
        /\ IF kind = "ok"
             THEN srvJobs' = [n \in DOMAIN srvJobs |->
                     IF srvJobs[n].id = q.id
                       THEN Job(q.id, sent.job_title, sent.company_name,
                                sent.job_description)
                       ELSE srvJobs[n]]
             ELSE UNCHANGED srvJobs
        /\ run' = RunSet(i, [run[i] EXCEPT !.resp = Resp(kind, <<>>, "")])
        /\ UNCHANGED <<srvNextId, srvCands, srvDocs, srvNextCand>>
     \/ /\ q.method = "DELETE" /\ q.path = "/jobs"
        /\ kind = "ok" => exists
        /\ IF kind = "ok"
             THEN srvJobs' = Without(srvJobs, q.id)
             ELSE UNCHANGED srvJobs
        /\ run' = RunSet(i, [run[i] EXCEPT !.resp = Resp(kind, <<>>, "")])
        /\ UNCHANGED <<srvNextId, srvCands, srvDocs, srvNextCand>>
     \/ /\ q.method = "GET" /\ q.path = "/documents"
        /\ kind = "ok" => docExists
        /\ run' = RunSet(i, [run[i] EXCEPT !.resp =
                     IF kind = "ok" THEN Resp("ok", <<Find(srvDocs, q.id)>>, "") ELSE fails])
        /\ UNCHANGED <<srvJobs, srvNextId, srvCands, srvDocs, srvNextCand>>
     \/ /\ q.method = "POST" /\ q.path = "/documents"
        /\ kind = "ok" => Len(srvDocs) < MaxDocIds
        /\ IF kind = "ok"
             THEN /\ srvDocs' = Append(srvDocs, Doc(DocId(Len(srvDocs) + 1), sent.file))
                  /\ run' = RunSet(i, [run[i] EXCEPT !.resp =
                               Resp("ok", <<>>, DocId(Len(srvDocs) + 1))])
             ELSE /\ run' = RunSet(i, [run[i] EXCEPT !.resp = fails])
                  /\ UNCHANGED srvDocs
        /\ UNCHANGED <<srvJobs, srvNextId, srvCands, srvNextCand>>
     \/ /\ q.method = "POST" /\ q.path = "/candidates"
        /\ kind = "ok" => srvNextCand < MaxCandIds
        /\ IF kind = "ok"
             THEN /\ srvNextCand' = srvNextCand + 1
                  /\ srvCands' = Append(srvCands,
                        Cand(CandId(srvNextCand + 1), sent.candidate_name,
                             sent.candidate_cv_id))
                  /\ run' = RunSet(i, [run[i] EXCEPT !.resp =
                               Resp("ok", <<>>, CandId(srvNextCand + 1))])
             ELSE /\ run' = RunSet(i, [run[i] EXCEPT !.resp = fails])
                  /\ UNCHANGED <<srvCands, srvNextCand>>
        /\ UNCHANGED <<srvJobs, srvNextId, srvDocs>>
     \/ /\ q.method = "PATCH" /\ q.path = "/candidates"
        /\ kind = "ok" => candExists
        /\ IF kind = "ok"
             THEN srvCands' = [n \in DOMAIN srvCands |->
                     IF srvCands[n].id = q.id
                       THEN [srvCands[n] EXCEPT !.candidate_cv_id = sent.candidate_cv_id]
                       ELSE srvCands[n]]
             ELSE UNCHANGED srvCands
        /\ run' = RunSet(i, [run[i] EXCEPT !.resp = fails])
        /\ UNCHANGED <<srvJobs, srvNextId, srvDocs, srvNextCand>>
     \/ /\ q.method = "DELETE" /\ q.path = "/candidates"
        /\ kind = "ok" => candExists
        /\ IF kind = "ok"
             THEN srvCands' = Without(srvCands, q.id)
             ELSE UNCHANGED srvCands
        /\ run' = RunSet(i, [run[i] EXCEPT !.resp = fails])
        /\ UNCHANGED <<srvJobs, srvNextId, srvDocs, srvNextCand>>
  /\ UNCHANGED <<cards, jobList, candList, sel, searchInfo, page, modal,
                 formJob, alertNow, faults, budget>>
  /\ UNCHANGED <<cardVars, ccards, formCand>>

(* --------------------- handlers resumed at an await -------------------- *)
\* what a throw inside handler h leads to: the delete listeners have a
\* try/catch around their awaits, init and the submit, Search and change
\* listeners have none
Throw(i, h) ==
  /\ run' = RunDel(i)
  /\ CASE h.op = "delete" ->
            /\ alertNow' = "Failed to delete job"
            /\ UNCHANGED faults
       [] h.op = "candDelete" ->
            /\ alertNow' = "Failed to delete candidate"
            /\ UNCHANGED faults
       [] OTHER ->
            /\ UNCHANGED alertNow
            /\ faults' = faults \cup {"uncaught"}

\* loadJobs, after `await fetchJobs()`: renderList, then ensureSearchJobs
loadJobs_resume(i) ==
  /\ Answered(i) /\ run[i].at = "loadJobs.fetchJobs"
  /\ LET h == run[i] IN
     IF FetchJobsThrows(h.resp)
       THEN /\ Throw(i, h)
            /\ cards' = Keep(cards, jobList, run')
            /\ UNCHANGED jobList
       ELSE /\ run' = RunSet(i, Await(h, "loadJobs.ensure", GetJobs))
            /\ jobList' = renderList(Container(cards, jobList), FetchJobsValue(h.resp),
                                     "buildJobCard", Referenced(run)).list
            /\ cards' = renderList(Container(cards, jobList), FetchJobsValue(h.resp),
                                   "buildJobCard", Referenced(run)).nodes
            /\ faults' = faults \cup SilentLog(h)
            /\ UNCHANGED alertNow
  /\ UNCHANGED <<srvJobs, srvNextId, srvCands, candList, sel, searchInfo, page,
                 modal, formJob, budget>>
  /\ UNCHANGED <<cardVars, candVars>>

\* ensureSearchJobs, after `await fetchJobs()`, and then the rest of the
\* caller up to its next await: loadJobs returns to init (loadCandidates),
\* to the submit listener (preselect when the Search page is visible) or to
\* the delete listener (done); init shows the home page; the submit
\* listener selects the new job and fetches again; the Search button of a
\* card selects its job and shows the Search page
ensure_resume(i) ==
  /\ Answered(i)
  /\ run[i].at \in {"loadJobs.ensure", "init.ensure", "create.ensure", "search.ensure"}
  /\ LET h == run[i]
         jobs == FetchJobsValue(h.resp)
         s1 == EnsureSelect(jobs, sel)
     IN
     IF FetchJobsThrows(h.resp)
       THEN /\ Throw(i, h)
            /\ UNCHANGED <<sel, searchInfo, page>>
       ELSE
         /\ faults' = faults \cup SilentLog(h)
         /\ UNCHANGED alertNow
         /\ CASE h.at = "loadJobs.ensure" /\ h.op = "init" ->
                   /\ run' = RunSet(i, Await(h, "loadCandidates.fetch", GetCandidates))
                   /\ sel' = s1 /\ searchInfo' = EnsureInfo(jobs, sel)
                   /\ UNCHANGED page
              [] h.at = "loadJobs.ensure" /\ h.op = "create" ->
                   /\ run' = IF page = "search"
                               THEN RunSet(i, Await(h, "create.ensure", GetJobs))
                               ELSE RunDel(i)
                   /\ sel' = s1 /\ searchInfo' = EnsureInfo(jobs, sel)
                   /\ UNCHANGED page
              [] h.at = "loadJobs.ensure" /\ h.op = "delete" ->
                   /\ run' = RunDel(i)
                   /\ sel' = s1 /\ searchInfo' = EnsureInfo(jobs, sel)
                   /\ UNCHANGED page
              [] h.at = "init.ensure" ->
                   /\ run' = RunDel(i)
                   /\ sel' = s1 /\ searchInfo' = EnsureInfo(jobs, sel)
                   /\ page' = "home"
              [] h.at = "create.ensure" ->
                   /\ run' = RunSet(i, Await(h, "create.fetchJobs", GetJobs))
                   /\ sel' = [s1 EXCEPT !.value = SetSelectValue(s1.options, h.jobId)]
                   /\ searchInfo' = EnsureInfo(jobs, sel)
                   /\ UNCHANGED page
              [] h.at = "search.ensure" ->
                   /\ run' = RunDel(i)
                   /\ sel' = [s1 EXCEPT !.value = SetSelectValue(s1.options, cards[h.card].job.id)]
                   /\ searchInfo' = updateSearchInfo(cards[h.card].job)
                   /\ page' = "search"
  /\ cards' = Keep(cards, jobList, run')
  /\ UNCHANGED <<srvJobs, srvNextId, srvCands, jobList, candList,
                 modal, formJob, budget>>
  /\ UNCHANGED <<cardVars, candVars>>

\* loadCandidates, after `await fetchCandidates()` (which, like fetchJobs,
\* ignores the status): renderList; init then calls ensureSearchJobs, the
\* delete and submit listeners of the candidates page are done
loadCandidates_resume(i) ==
  /\ Answered(i) /\ run[i].at = "loadCandidates.fetch"
  /\ LET h == run[i]
         r == renderList(Container(ccards, candList), FetchJobsValue(h.resp),
                         "buildCandidateCard", CandReferenced(run))
     IN
     IF FetchJobsThrows(h.resp)
       THEN /\ Throw(i, h)
            /\ ccards' = KeepCand(ccards, candList, run')
            /\ UNCHANGED candList
       ELSE /\ run' = IF h.op = "init" THEN RunSet(i, Await(h, "init.ensure", GetJobs))
                      ELSE RunDel(i)
            /\ candList' = r.list
            /\ ccards' = KeepCand(r.nodes, r.list, run')
            /\ faults' = faults \cup SilentLog(h)
            /\ UNCHANGED alertNow
  /\ UNCHANGED <<srvJobs, srvNextId, srvCands, cards, jobList, sel,
                 searchInfo, page, modal, formJob, budget>>
  /\ UNCHANGED <<cardVars, srvDocs, srvNextCand, formCand>>

\* closeModal(modal)
closeModal_stayOpen(m, which) == m
closeModal(m, which) == [m EXCEPT ![which] = FALSE, !.backdrop = FALSE]
\* openModal(modal)
openModal(m, which) == [m EXCEPT ![which] = TRUE, !.backdrop = TRUE]

\* the submit listener of #form-add-job, after the POST
create_post_resume(i) ==
  /\ Answered(i) /\ run[i].at = "create.post"
  /\ LET h == run[i] IN
     CASE h.resp.kind = "neterr" ->
            /\ Throw(i, h)
            /\ UNCHANGED <<modal, formJob>>
       [] h.resp.kind = "http" ->
            /\ run' = RunDel(i)
            /\ alertNow' = "Failed to add job"
            /\ UNCHANGED faults
            /\ UNCHANGED <<modal, formJob>>
       [] h.resp.kind = "ok" ->
            /\ run' = RunSet(i, [Await(h, "loadJobs.fetchJobs", GetJobs)
                                   EXCEPT !.jobId = h.resp.id])
            /\ modal' = closeModal(modal, "job")
            /\ formJob' = EmptyForm
            /\ UNCHANGED <<alertNow, faults>>
  /\ UNCHANGED <<srvJobs, srvNextId, srvCands, cards, jobList, candList,
                 sel, searchInfo, page, budget>>
  /\ UNCHANGED <<cardVars, candVars>>

\* the submit listener, after its last fetchJobs: the info line of the new job
create_find_resume(i) ==
  /\ Answered(i) /\ run[i].at = "create.fetchJobs"
  /\ LET h == run[i] IN
     IF FetchJobsThrows(h.resp)
       THEN /\ Throw(i, h)
            /\ UNCHANGED searchInfo
       ELSE /\ run' = RunDel(i)
            /\ searchInfo' = updateSearchInfo(Find(FetchJobsValue(h.resp), h.jobId))
            /\ faults' = faults \cup SilentLog(h)
            /\ UNCHANGED alertNow
  /\ cards' = Keep(cards, jobList, run')
  /\ UNCHANGED <<srvJobs, srvNextId, srvCands, jobList, candList, sel,
                 page, modal, formJob, budget>>
  /\ UNCHANGED <<cardVars, candVars>>

\* what the Save branch writes once the PATCH has answered 2xx: the record
\* and the header are set from the fields as they are now
PatchedJob(c) ==
  [c.job EXCEPT !.job_title = c.vTitle, !.company_name = c.vCompany,
                !.job_description = c.vDesc]
PatchedCard(c) ==
  [c EXCEPT !.job = PatchedJob(c),
            !.title = PatchedJob(c).job_title,
            !.subtitle = PatchedJob(c).company_name]

\* the Edit/Save listener of a job card, after the PATCH
edit_patch_resume(i) ==
  /\ Answered(i) /\ run[i].at = "edit.patch"
  /\ LET h == run[i]
         c == cards[h.card]
     IN
     /\ run' = RunDel(i)
     /\ IF h.resp.kind = "ok"
          THEN /\ cards' = Keep([cards EXCEPT ![h.card] = PatchedCard(c)], jobList, run')
               /\ UNCHANGED alertNow
          ELSE /\ cards' = Keep(cards, jobList, run')
               /\ alertNow' = "Failed to save job"
     /\ UNCHANGED faults
  /\ UNCHANGED <<srvJobs, srvNextId, srvCands, jobList, candList, sel,
                 searchInfo, page, modal, formJob, budget>>
  /\ UNCHANGED <<cardVars, candVars>>

\* the Delete listener of a job card, after the DELETE
delete_resume_reloadAlways(i) ==
  /\ Answered(i) /\ run[i].at = "delete.delete"
  /\ run' = RunSet(i, Await(run[i], "loadJobs.fetchJobs", GetJobs))
  /\ cards' = Keep(cards, jobList, run')
  /\ UNCHANGED <<srvJobs, srvNextId, srvCands, jobList, candList, sel,
                 searchInfo, page, modal, formJob, alertNow, faults, budget>>
  /\ UNCHANGED <<cardVars, candVars>>
delete_resume(i) ==
  /\ Answered(i) /\ run[i].at = "delete.delete"
  /\ LET h == run[i] IN
     IF h.resp.kind = "ok"
       THEN /\ run' = RunSet(i, Await(h, "loadJobs.fetchJobs", GetJobs))
            /\ UNCHANGED alertNow
       ELSE /\ run' = RunDel(i)
            /\ alertNow' = "Failed to delete job"
  /\ UNCHANGED faults
  /\ cards' = Keep(cards, jobList, run')
  /\ UNCHANGED <<srvJobs, srvNextId, srvCands, jobList, candList, sel,
                 searchInfo, page, modal, formJob, budget>>
  /\ UNCHANGED <<cardVars, candVars>>

\* the change listener of the selector, after its fetchJobs
change_resume(i) ==
  /\ Answered(i) /\ run[i].at = "change.fetchJobs"
  /\ LET h == run[i] IN
     IF FetchJobsThrows(h.resp)
       THEN /\ Throw(i, h)
            /\ UNCHANGED searchInfo
       ELSE /\ run' = RunDel(i)
            /\ searchInfo' = updateSearchInfo(Find(FetchJobsValue(h.resp), sel.value))
            /\ faults' = faults \cup SilentLog(h)
            /\ UNCHANGED alertNow
  /\ UNCHANGED <<srvJobs, srvNextId, srvCands, cards, jobList, candList,
                 sel, page, modal, formJob, budget>>
  /\ UNCHANGED <<cardVars, candVars>>

(* ----------------------------- user events ----------------------------- *)
Pages == {"home", "jobs", "candidates", "search"}
CanAct == budget > 0 /\ alertNow = ""
CanStart == CanAct /\ Len(run) < MaxInFlight

\* a nav button: showPage(name)
nav_click(name) ==
  /\ CanAct /\ page # name
  /\ page' = name
  /\ budget' = budget - 1
  /\ UNCHANGED <<srvJobs, srvNextId, srvCands, cards, jobList, candList,
                 sel, searchInfo, modal, formJob, run, alertNow, faults>>
  /\ UNCHANGED <<cardVars, candVars>>

\* #btn-add-job on the Jobs page, #btn-search-add-job on the Search page
btnAddJob_click ==
  /\ CanAct /\ page \in {"jobs", "search"} /\ ~modal.job
  /\ modal' = openModal(modal, "job")
  /\ budget' = budget - 1
  /\ UNCHANGED <<srvJobs, srvNextId, srvCands, cards, jobList, candList,
                 sel, searchInfo, page, formJob, run, alertNow, faults>>
  /\ UNCHANGED <<cardVars, candVars>>

\* the user fills the fields of the add-job form
formJob_input(e) ==
  /\ CanAct /\ modal.job
  /\ formJob # e
  /\ formJob' = e
  /\ budget' = budget - 1
  /\ UNCHANGED <<srvJobs, srvNextId, srvCands, cards, jobList, candList,
                 sel, searchInfo, page, modal, run, alertNow, faults>>
  /\ UNCHANGED <<cardVars, candVars>>

\* submit of #form-add-job: the POST is sent with the form's fields
formAddJob_submit ==
  /\ CanStart /\ modal.job
  /\ run' = Append(run, Handler("create", "create.post", Req("POST", "/jobs", ""),
                                0, formJob, ""))
  /\ budget' = budget - 1
  /\ UNCHANGED <<srvJobs, srvNextId, srvCands, cards, jobList, candList,
                 sel, searchInfo, page, modal, formJob, alertNow, faults>>
  /\ UNCHANGED <<cardVars, candVars>>

Mounted(k) == page = "jobs" /\ k \in SeqToSet(jobList)

\* the body of the PATCH: the three fields as they are when Save is clicked
PatchBody(c) ==
  [job_title |-> c.vTitle, company_name |-> c.vCompany, job_description |-> c.vDesc]

\* the record of a card and what its header shows
Shown(c) == [job |-> c.job, title |-> c.title, subtitle |-> c.subtitle]

\* click on Edit/Save of card k: the fields flip between disabled and
\* enabled; leaving edit mode sends the PATCH
btnEdit_click(k) ==
  /\ Mounted(k)
  /\ LET c == cards[k]
         entering == c.disabled
     IN
     IF entering
       THEN /\ CanAct
            /\ cards' = [cards EXCEPT ![k] = [c EXCEPT !.disabled = FALSE, !.btn = "Save"]]
            /\ UNCHANGED run
       ELSE /\ CanStart
            /\ cards' = [cards EXCEPT ![k] = [c EXCEPT !.disabled = TRUE, !.btn = "Edit"]]
            /\ run' = Append(run, [Handler("edit", "edit.patch",
                                           Req("PATCH", "/jobs", c.job.id), k, PatchBody(c), "")
                                     EXCEPT !.before = Shown(c)])
  /\ budget' = budget - 1
  /\ UNCHANGED <<srvJobs, srvNextId, srvCands, jobList, candList, sel,
                 searchInfo, page, modal, formJob, alertNow, faults>>
  /\ UNCHANGED <<cardVars, candVars>>

\* the user changes the fields of card k, which are enabled
field_input(k, e) ==
  /\ CanAct /\ Mounted(k) /\ ~cards[k].disabled
  /\ PatchBody(cards[k]) # e
  /\ cards' = [cards EXCEPT ![k] = [@ EXCEPT !.vTitle = e.job_title,
                    !.vCompany = e.company_name, !.vDesc = e.job_description]]
  /\ budget' = budget - 1
  /\ UNCHANGED <<srvJobs, srvNextId, srvCands, jobList, candList, sel,
                 searchInfo, page, modal, formJob, run, alertNow, faults>>
  /\ UNCHANGED <<cardVars, candVars>>

\* click on Search of card k
btnSearch_click(k) ==
  /\ CanStart /\ Mounted(k)
  /\ run' = Append(run, Handler("search", "search.ensure", GetJobs, k, EmptyForm, ""))
  /\ budget' = budget - 1
  /\ UNCHANGED <<srvJobs, srvNextId, srvCands, cards, jobList, candList,
                 sel, searchInfo, page, modal, formJob, alertNow, faults>>
  /\ UNCHANGED <<cardVars, candVars>>

\* click on Delete of card k, and the answer to confirm()
btnDelete_click_noConfirm(k, confirmed) ==
  /\ Mounted(k) /\ CanStart
  /\ run' = Append(run, Handler("delete", "delete.delete",
                      Req("DELETE", "/jobs", cards[k].job.id), k, EmptyForm, ""))
  /\ budget' = budget - 1
  /\ UNCHANGED <<srvJobs, srvNextId, srvCands, cards, jobList, candList,
                 sel, searchInfo, page, modal, formJob, alertNow, faults>>
  /\ UNCHANGED <<cardVars, candVars>>
btnDelete_click(k, confirmed) ==
  /\ Mounted(k)
  /\ IF confirmed
       THEN /\ CanStart
            /\ run' = Append(run, Handler("delete", "delete.delete",
                                Req("DELETE", "/jobs", cards[k].job.id), k, EmptyForm, ""))
       ELSE /\ CanAct
            /\ UNCHANGED run
  /\ budget' = budget - 1
  /\ UNCHANGED <<srvJobs, srvNextId, srvCands, cards, jobList, candList,
                 sel, searchInfo, page, modal, formJob, alertNow, faults>>
  /\ UNCHANGED <<cardVars, candVars>>

\* the user picks another option of the selector
searchSelect_change(n) ==
  /\ CanStart /\ page = "search"
  /\ n \in DOMAIN sel.options /\ sel.options[n].value # sel.value
  /\ sel' = [sel EXCEPT !.value = sel.options[n].value]
  /\ run' = Append(run, Handler("change", "change.fetchJobs", GetJobs, 0, EmptyForm, ""))
  /\ budget' = budget - 1
  /\ UNCHANGED <<srvJobs, srvNextId, srvCands, cards, jobList, candList,
                 searchInfo, page, modal, formJob, alertNow, faults>>
  /\ UNCHANGED <<cardVars, candVars>>

\* the user dismisses the alert() box; the listener that raised it ends
alert_dismiss ==
  /\ alertNow # ""
  /\ alertNow' = ""
  /\ UNCHANGED <<srvJobs, srvNextId, srvCands, cards, jobList, candList,
                 sel, searchInfo, page, modal, formJob, run, faults, budget>>
  /\ UNCHANGED <<cardVars, candVars>>

(* ========================= candidates page ============================ *)
\* what the closure of a candidates-page listener holds when it sends nothing
NoSent == CandSent(<<>>, NoFile, "")
\* the files a user chooses: a file stands for the text the server stores
\* as the content of the document made from it
Files == {"new cv"}
\* what a user fills into the add-candidate form
CandEntries == {[candidate_name |-> <<"Bo">>, cv_file |-> "new cv"]}

CandMounted(k) == page = "candidates" /\ k \in SeqToSet(candList)

\* the elements of a candidate card: root, header, body and footer of the
\* card, the [data-nested-cv] mount in its body, and root, header, body and
\* footer of the nested CV card appended to the mount
CandElements == {"root", "header", "body", "footer", "mount",
                 "cvRoot", "cvHeader", "cvBody", "cvFooter"}
\* variant: the nested card is appended to the header of the candidate card
CandParent_cvInHeader(el) ==
  CASE el \in {"header", "body", "footer"} -> "root"
    [] el = "mount" -> "body"
    [] el = "cvRoot" -> "header"
    [] el \in {"cvHeader", "cvBody", "cvFooter"} -> "cvRoot"
    [] OTHER -> ""
\* parentNode inside the card ("" for the root)
CandParent(el) ==
  CASE el \in {"header", "body", "footer"} -> "root"
    [] el = "mount" -> "body"
    [] el = "cvRoot" -> "mount"
    [] el \in {"cvHeader", "cvBody", "cvFooter"} -> "cvRoot"
    [] OTHER -> ""
\* the elements an event dispatched on el passes while it bubbles
RECURSIVE BubblePath(_)
BubblePath(el) == IF el = "" THEN {} ELSE {el} \cup BubblePath(CandParent(el))
\* the card whose onToggle listens on el: makeCard wires click and keydown
\* on the header of the card it builds
ToggleListener(el) ==
  CASE el = "header" -> "candidate" [] el = "cvHeader" -> "cv" [] OTHER -> ""
\* the cards toggled by a click (or Enter, Space) on el
Toggled(el) == {ToggleListener(e) : e \in BubblePath(el)} \ {""}
\* the class 'expanded' of a card after such an event
Flip(card, el, now) == IF card \in Toggled(el) THEN ~now ELSE now

\* header of candidate card k (click, Enter, Space): onToggle flips
\* 'expanded'; onExpand fetches the CV document when the candidate has a
\* candidate_cv_id and the <pre> of the nested card is empty
cand_toggle(k) ==
  /\ CanAct /\ CandMounted(k)
  /\ LET c == ccards[k]
         fetches == ~c.expanded /\ c.c.candidate_cv_id # "" /\ c.pre = ""
     IN
     /\ fetches => Len(run) < MaxInFlight
     /\ ccards' = [ccards EXCEPT ![k] =
                     [c EXCEPT !.expanded = Flip("candidate", "header", c.expanded),
                               !.cvExpanded = Flip("cv", "header", c.cvExpanded),
                               !.nFetch = IF fetches THEN c.nFetch + 1 ELSE c.nFetch]]
     /\ run' = IF fetches
                 THEN Append(run, Handler("expand", "expand.doc",
                                 GetDocument(c.c.candidate_cv_id), k, NoSent, ""))
                 ELSE run
  /\ budget' = budget - 1
  /\ UNCHANGED <<srvJobs, srvNextId, srvCands, cards, jobList, candList, sel,
                 searchInfo, page, modal, formJob, alertNow, faults>>
  /\ UNCHANGED <<cardVars, srvDocs, srvNextCand, formCand>>

\* header of the nested CV card of candidate card k, which sits in the body
\* of the candidate card: onExpand returns when the <pre> has text, fetches
\* the document when there is a candidate_cv_id, else writes '(No CV)'
cv_toggle(k) ==
  /\ CanAct /\ CandMounted(k) /\ ccards[k].expanded
  /\ LET c == ccards[k]
         expanding == ~c.cvExpanded
         fetches == expanding /\ c.pre = "" /\ c.c.candidate_cv_id # ""
         noCv == expanding /\ c.pre = "" /\ c.c.candidate_cv_id = ""
     IN
     /\ fetches => Len(run) < MaxInFlight
     /\ ccards' = [ccards EXCEPT ![k] =
                     [c EXCEPT !.cvExpanded = Flip("cv", "cvHeader", c.cvExpanded),
                               !.expanded = Flip("candidate", "cvHeader", c.expanded),
                               !.pre = IF noCv THEN "(No CV)" ELSE c.pre,
                               !.nFetch = IF fetches THEN c.nFetch + 1 ELSE c.nFetch]]
     /\ run' = IF fetches
                 THEN Append(run, Handler("cvExpand", "expand.doc",
                                 GetDocument(c.c.candidate_cv_id), k, NoSent, ""))
                 ELSE run
  /\ budget' = budget - 1
  /\ UNCHANGED <<srvJobs, srvNextId, srvCands, cards, jobList, candList, sel,
                 searchInfo, page, modal, formJob, alertNow, faults>>
  /\ UNCHANGED <<cardVars, srvDocs, srvNextCand, formCand>>

\* either onExpand hook, after its fetch of the document: the <pre> gets the
\* content, or '(No CV)' for a non-2xx answer or a rejected fetch
docfetch_resume(i) ==
  /\ Answered(i) /\ run[i].at = "expand.doc"
  /\ LET h == run[i]
         text == IF h.resp.kind = "ok" THEN h.resp.items[1].content ELSE "(No CV)"
     IN
     /\ run' = RunDel(i)
     /\ ccards' = KeepCand([ccards EXCEPT ![h.card].pre = text], candList, run')
  /\ UNCHANGED <<srvJobs, srvNextId, srvCands, cards, jobList, candList, sel,
                 searchInfo, page, modal, formJob, alertNow, faults, budget>>
  /\ UNCHANGED <<cardVars, srvDocs, srvNextCand, formCand>>

\* change of the file input of card k (a file chosen or dropped): the file
\* is uploaded
fileInput_change(k, f) ==
  /\ CanStart /\ CandMounted(k) /\ ccards[k].expanded
  /\ run' = Append(run, Handler("upload", "upload.post", Req("POST", "/documents", ""),
                                k, CandSent(<<>>, f, ""), ""))
  /\ ccards' = [ccards EXCEPT ![k].nFetch = 0]
  /\ budget' = budget - 1
  /\ UNCHANGED <<srvJobs, srvNextId, srvCands, cards, jobList, candList, sel,
                 searchInfo, page, modal, formJob, alertNow, faults>>
  /\ UNCHANGED <<cardVars, srvDocs, srvNextCand, formCand>>

\* the body of the PATCH that links the uploaded document
PatchCvBody_noId(resp) == CandSent(<<>>, NoFile, "")
PatchCvBody(resp) == CandSent(<<>>, NoFile, resp.id)

\* the change listener after the upload: the candidate is PATCHed with the
\* returned document id
upload_post_resume(i) ==
  /\ Answered(i) /\ run[i].at = "upload.post"
  /\ LET h == run[i] IN
     IF h.resp.kind = "ok"
       THEN /\ run' = RunSet(i, [Await(h, "upload.patch",
                                       Req("PATCH", "/candidates", ccards[h.card].c.id))
                                   EXCEPT !.sent = PatchCvBody(h.resp)])
            /\ UNCHANGED alertNow
       ELSE /\ run' = RunDel(i)
            /\ alertNow' = "Failed to upload/link CV"
  /\ ccards' = KeepCand(ccards, candList, run')
  /\ UNCHANGED <<srvJobs, srvNextId, srvCands, cards, jobList, candList, sel,
                 searchInfo, page, modal, formJob, faults, budget>>
  /\ UNCHANGED <<cardVars, srvDocs, srvNextCand, formCand>>

\* the change listener after the PATCH: the record gets the document id and
\* the document is fetched for the <pre>
upload_patch_resume(i) ==
  /\ Answered(i) /\ run[i].at = "upload.patch"
  /\ LET h == run[i]
         document_id == h.sent.candidate_cv_id
     IN
     IF h.resp.kind = "ok"
       THEN /\ run' = RunSet(i, Await(h, "upload.doc", GetDocument(document_id)))
            /\ ccards' = [ccards EXCEPT ![h.card].c.candidate_cv_id = document_id]
            /\ UNCHANGED alertNow
       ELSE /\ run' = RunDel(i)
            /\ ccards' = KeepCand(ccards, candList, run')
            /\ alertNow' = "Failed to upload/link CV"
  /\ UNCHANGED <<srvJobs, srvNextId, srvCands, cards, jobList, candList, sel,
                 searchInfo, page, modal, formJob, faults, budget>>
  /\ UNCHANGED <<cardVars, srvDocs, srvNextCand, formCand>>

\* the change listener after the fetch of the new document: a 2xx answer
\* sets the <pre>; a non-2xx answer and a rejected fetch are ignored
upload_doc_resume(i) ==
  /\ Answered(i) /\ run[i].at = "upload.doc"
  /\ LET h == run[i]
         text == IF h.resp.kind = "ok" THEN h.resp.items[1].content
                 ELSE ccards[h.card].pre
     IN
     /\ run' = RunDel(i)
     /\ ccards' = KeepCand([ccards EXCEPT ![h.card].pre = text], candList, run')
  /\ UNCHANGED <<srvJobs, srvNextId, srvCands, cards, jobList, candList, sel,
                 searchInfo, page, modal, formJob, alertNow, faults, budget>>
  /\ UNCHANGED <<cardVars, srvDocs, srvNextCand, formCand>>

\* click on Delete of candidate card k, and the answer to confirm()
candDelete_click(k, confirmed) ==
  /\ CandMounted(k)
  /\ IF confirmed
       THEN /\ CanStart
            /\ run' = Append(run, Handler("candDelete", "candDelete.delete",
                                Req("DELETE", "/candidates", ccards[k].c.id), k, NoSent, ""))
       ELSE /\ CanAct
            /\ UNCHANGED run
  /\ budget' = budget - 1
  /\ UNCHANGED <<srvJobs, srvNextId, srvCands, cards, jobList, candList,
                 sel, searchInfo, page, modal, formJob, alertNow, faults>>
  /\ UNCHANGED <<cardVars, candVars>>

\* the Delete listener of a candidate card, after the DELETE
candDelete_resume(i) ==
  /\ Answered(i) /\ run[i].at = "candDelete.delete"
  /\ LET h == run[i] IN
     IF h.resp.kind = "ok"
       THEN /\ run' = RunSet(i, Await(h, "loadCandidates.fetch", GetCandidates))
            /\ UNCHANGED alertNow
       ELSE /\ run' = RunDel(i)
            /\ alertNow' = "Failed to delete candidate"
  /\ ccards' = KeepCand(ccards, candList, run')
  /\ UNCHANGED <<srvJobs, srvNextId, srvCands, cards, jobList, candList, sel,
                 searchInfo, page, modal, formJob, faults, budget>>
  /\ UNCHANGED <<cardVars, srvDocs, srvNextCand, formCand>>

\* #btn-add-candidate
btnAddCandidate_click ==
  /\ CanAct /\ page = "candidates" /\ ~modal.cand
  /\ modal' = openModal(modal, "cand")
  /\ budget' = budget - 1
  /\ UNCHANGED <<srvJobs, srvNextId, srvCands, cards, jobList, candList,
                 sel, searchInfo, page, formJob, run, alertNow, faults>>
  /\ UNCHANGED <<cardVars, candVars>>

\* a [data-close] element of a visible modal: closeModal(el.closest('.modal'))
dataClose_click(which) ==
  /\ CanAct /\ modal[which]
  /\ modal' = closeModal(modal, which)
  /\ budget' = budget - 1
  /\ UNCHANGED <<srvJobs, srvNextId, srvCands, cards, jobList, candList,
                 sel, searchInfo, page, formJob, run, alertNow, faults>>
  /\ UNCHANGED <<cardVars, candVars>>

\* a click on the visible backdrop: both modals and the backdrop are hidden
backdrop_click ==
  /\ CanAct /\ modal.backdrop
  /\ modal' = [backdrop |-> FALSE, job |-> FALSE, cand |-> FALSE]
  /\ budget' = budget - 1
  /\ UNCHANGED <<srvJobs, srvNextId, srvCands, cards, jobList, candList,
                 sel, searchInfo, page, formJob, run, alertNow, faults>>
  /\ UNCHANGED <<cardVars, candVars>>

\* the user fills the add-candidate form
formCand_input(e) ==
  /\ CanAct /\ modal.cand
  /\ formCand # e
  /\ formCand' = e
  /\ budget' = budget - 1
  /\ UNCHANGED <<srvJobs, srvNextId, srvCands, cards, jobList, candList,
                 sel, searchInfo, page, modal, formJob, run, alertNow, faults>>
  /\ UNCHANGED <<cardVars, srvDocs, srvNextCand, ccards>>

\* submit of #form-add-candidate: without a File the listener alerts and
\* returns, otherwise the file is uploaded
formAddCandidate_submit ==
  /\ modal.cand
  /\ IF formCand.cv_file = NoFile
       THEN /\ CanAct
            /\ alertNow' = "Please choose a CV file"
            /\ UNCHANGED run
       ELSE /\ CanStart
            /\ run' = Append(run, Handler("candCreate", "candCreate.upload",
                                Req("POST", "/documents", ""), 0,
                                CandSent(formCand.candidate_name, formCand.cv_file, ""), ""))
            /\ UNCHANGED alertNow
  /\ budget' = budget - 1
  /\ UNCHANGED <<srvJobs, srvNextId, srvCands, cards, jobList, candList,
                 sel, searchInfo, page, modal, formJob, faults>>
  /\ UNCHANGED <<cardVars, candVars>>

\* the submit listener after the upload: the candidate is POSTed with the
\* name read from the form at submit and the returned document id
candCreate_upload_resume(i) ==
  /\ Answered(i) /\ run[i].at = "candCreate.upload"
  /\ LET h == run[i] IN
     CASE h.resp.kind = "neterr" -> Throw(i, h)
       [] h.resp.kind = "http" ->
            /\ run' = RunDel(i)
            /\ alertNow' = "Failed to upload document"
            /\ UNCHANGED faults
       [] h.resp.kind = "ok" ->
            /\ run' = RunSet(i, [Await(h, "candCreate.post", Req("POST", "/candidates", ""))
                                   EXCEPT !.sent = CandSent(h.sent.candidate_name,
                                                            h.sent.file, h.resp.id)])
            /\ UNCHANGED <<alertNow, faults>>
  /\ UNCHANGED <<srvJobs, srvNextId, srvCands, cards, jobList, candList,
                 sel, searchInfo, page, modal, formJob, budget>>
  /\ UNCHANGED <<cardVars, candVars>>

\* the submit listener after the POST of the candidate
candCreate_post_resume(i) ==
  /\ Answered(i) /\ run[i].at = "candCreate.post"
  /\ LET h == run[i] IN
     CASE h.resp.kind = "neterr" ->
            /\ Throw(i, h)
            /\ UNCHANGED <<modal, formCand>>
       [] h.resp.kind = "http" ->
            /\ run' = RunDel(i)
            /\ alertNow' = "Failed to create candidate"
            /\ UNCHANGED <<faults, modal, formCand>>
       [] h.resp.kind = "ok" ->
            /\ run' = RunSet(i, Await(h, "loadCandidates.fetch", GetCandidates))
            /\ modal' = closeModal(modal, "cand")
            /\ formCand' = EmptyCandForm
            /\ UNCHANGED <<alertNow, faults>>
  /\ UNCHANGED <<srvJobs, srvNextId, srvCands, cards, jobList, candList,
                 sel, searchInfo, page, formJob, budget>>
  /\ UNCHANGED <<cardVars, srvDocs, srvNextCand, ccards>>

Slots == 1..(MaxInFlight + 1)
CardKeys == 1..(MaxJobIds + MaxInFlight + 2)

JobsNext ==
  \/ \E i \in Slots, kind \in RespKinds : server_answer(i, kind)
  \/ \E i \in Slots : loadJobs_resume(i)
  \/ \E i \in Slots : ensure_resume(i)
  \/ \E i \in Slots : loadCandidates_resume(i)
  \/ \E i \in Slots : create_post_resume(i)
  \/ \E i \in Slots : create_find_resume(i)
  \/ \E i \in Slots : edit_patch_resume(i)
  \/ \E i \in Slots : delete_resume(i)
  \/ \E i \in Slots : change_resume(i)
  \/ \E name \in Pages : nav_click(name)
  \/ btnAddJob_click
  \/ \E e \in Entries : formJob_input(e)
  \/ formAddJob_submit
  \/ \E k \in CardKeys : btnEdit_click(k)
  \/ \E k \in CardKeys, e \in Entries : field_input(k, e)
  \/ \E k \in CardKeys : btnSearch_click(k)
  \/ \E k \in CardKeys, confirmed \in BOOLEAN : btnDelete_click(k, confirmed)
  \/ \E n \in 1..MaxJobIds : searchSelect_change(n)
  \/ alert_dismiss

SpecJobs == JobsInit /\ [][JobsNext]_vars

\* the same page when the user only works on the job cards: Edit/Save,
\* typing, Delete, and the way back to the Jobs page
EditNext ==
  \/ \E i \in Slots, kind \in RespKinds : server_answer(i, kind)
  \/ \E i \in Slots : loadJobs_resume(i)
  \/ \E i \in Slots : ensure_resume(i)
  \/ \E i \in Slots : loadCandidates_resume(i)
  \/ \E i \in Slots : edit_patch_resume(i)
  \/ \E i \in Slots : delete_resume(i)
  \/ nav_click("jobs")
  \/ \E k \in CardKeys : btnEdit_click(k)
  \/ \E k \in CardKeys, e \in Entries : field_input(k, e)
  \/ \E k \in CardKeys, confirmed \in BOOLEAN : btnDelete_click(k, confirmed)
  \/ alert_dismiss

SpecEdit == EditInit /\ [][EditNext]_vars

\* the page when the controller script has run up to the first await of
\* init(): n jobs and candidate c1 on the server, whose candidate_cv_id is cv;
\* document d1 with content t; page p visible; b user events to explore
StartCand(n, cv, t, p, b) ==
  /\ srvNextId = n
  /\ srvJobs = [i \in 1..n |-> Job(JobId(i), <<"Engineer">>, <<"Acme">>, <<"builds">>)]
  /\ srvCands = <<Cand(CandId(1), <<"Ann">>, cv)>> /\ srvNextCand = 1
  /\ srvDocs = <<Doc(DocId(1), t)>>
  /\ cards = <<>> /\ jobList = <<>> /\ candList = <<>> /\ ccards = <<>>
  /\ sel = [options |-> <<>>, value |-> ""]
  /\ searchInfo = <<>>
  /\ page = p
  /\ modal = [backdrop |-> FALSE, job |-> FALSE, cand |-> FALSE]
  /\ formJob = EmptyForm /\ formCand = EmptyCandForm
  /\ run = <<Handler("init", "loadJobs.fetchJobs", GetJobs, 0, EmptyForm, "")>>
  /\ alertNow = "" /\ faults = {}
  /\ budget = b

\* what candidate c1 refers to as its CV when the page is loaded (nothing,
\* or document d1), and the content of d1 (NULL or '', or text)
InitCvIds == {"", DocId(1)}
InitContents == {"", "old cv"}

CvInit ==
  CardOff /\ \E cv \in InitCvIds, t \in InitContents :
               StartCand(0, cv, t, "candidates", MaxCvOps)

\* the Candidates page when the user only works on the CV of a candidate
\* card: the headers of the card and of its nested CV card, the file input
CvNext ==
  \/ \E i \in Slots, kind \in RespKinds : server_answer(i, kind)
  \/ \E i \in Slots : loadJobs_resume(i)
  \/ \E i \in Slots : ensure_resume(i)
  \/ \E i \in Slots : loadCandidates_resume(i)
  \/ \E i \in Slots : docfetch_resume(i)
  \/ \E i \in Slots : upload_post_resume(i)
  \/ \E i \in Slots : upload_patch_resume(i)
  \/ \E i \in Slots : upload_doc_resume(i)
  \/ nav_click("candidates")
  \/ \E k \in CardKeys : cand_toggle(k)
  \/ \E k \in CardKeys : cv_toggle(k)
  \/ \E k \in CardKeys, f \in Files : fileInput_change(k, f)
  \/ alert_dismiss

SpecCv == CvInit /\ [][CvNext]_vars

ListPages == {"jobs", "candidates"}

CreateInit ==
  CardOff /\ \E p \in ListPages : StartCand(1, DocId(1), "old cv", p, MaxCreateOps)

\* the Jobs and Candidates pages when the user only creates jobs and
\* candidates
CreateNext ==
  \/ \E i \in Slots, kind \in RespKinds : server_answer(i, kind)
  \/ \E i \in Slots : loadJobs_resume(i)
  \/ \E i \in Slots : ensure_resume(i)
  \/ \E i \in Slots : loadCandidates_resume(i)
  \/ \E i \in Slots : create_post_resume(i)
  \/ \E i \in Slots : candCreate_upload_resume(i)
  \/ \E i \in Slots : candCreate_post_resume(i)
  \/ \E name \in ListPages : nav_click(name)
  \/ btnAddJob_click
  \/ \E e \in Entries : formJob_input(e)
  \/ formAddJob_submit
  \/ btnAddCandidate_click
  \/ \E e \in CandEntries : formCand_input(e)
  \/ formAddCandidate_submit
  \/ alert_dismiss

SpecCreate == CreateInit /\ [][CreateNext]_vars

DeleteInit ==
  CardOff /\ \E p \in ListPages : StartCand(2, DocId(1), "old cv", p, MaxDeleteOps)

\* the Jobs and Candidates pages when the user only deletes jobs and
\* candidates
DeleteNext ==
  \/ \E i \in Slots, kind \in RespKinds : server_answer(i, kind)
  \/ \E i \in Slots : loadJobs_resume(i)
  \/ \E i \in Slots : ensure_resume(i)
  \/ \E i \in Slots : loadCandidates_resume(i)
  \/ \E i \in Slots : delete_resume(i)
  \/ \E i \in Slots : candDelete_resume(i)
  \/ \E name \in ListPages : nav_click(name)
  \/ \E k \in CardKeys, confirmed \in BOOLEAN : btnDelete_click(k, confirmed)
  \/ \E k \in CardKeys, confirmed \in BOOLEAN : candDelete_click(k, confirmed)
  \/ alert_dismiss

SpecDelete == DeleteInit /\ [][DeleteNext]_vars

\* two jobs on the server, the Jobs page shown
SelectInit == CardOff /\ Start(2, "jobs", MaxSelectOps)

\* the Jobs and Search pages when the user only picks options of the
\* selector and deletes jobs
SelectNext ==
  \/ \E i \in Slots, kind \in RespKinds : server_answer(i, kind)
  \/ \E i \in Slots : loadJobs_resume(i)
  \/ \E i \in Slots : ensure_resume(i)
  \/ \E i \in Slots : loadCandidates_resume(i)
  \/ \E i \in Slots : delete_resume(i)
  \/ \E i \in Slots : change_resume(i)
  \/ \E name \in {"jobs", "search"} : nav_click(name)
  \/ \E k \in CardKeys : btnDelete_click(k, TRUE)
  \/ \E n \in 1..MaxJobIds : searchSelect_change(n)
  \/ alert_dismiss

SpecSelect == SelectInit /\ [][SelectNext]_vars

\* the fields of the job the user creates in the end-to-end scenario
E2EEntries ==
  {[job_title |-> <<"Engineer">>, company_name |-> <<"Acme">>, job_description |-> <<"builds">>]}

\* no job on the server, the Jobs page shown
E2EInit == CardOff /\ Start(0, "jobs", MaxE2EOps)

\* the Jobs and Search pages when the user only creates jobs and clicks
\* Search on their cards
E2ENext ==
  \/ \E i \in Slots, kind \in RespKinds : server_answer(i, kind)
  \/ \E i \in Slots : loadJobs_resume(i)
  \/ \E i \in Slots : ensure_resume(i)
  \/ \E i \in Slots : loadCandidates_resume(i)
  \/ \E i \in Slots : create_post_resume(i)
  \/ \E i \in Slots : create_find_resume(i)
  \/ \E name \in {"jobs", "search"} : nav_click(name)
  \/ btnAddJob_click
  \/ \E e \in E2EEntries : formJob_input(e)
  \/ formAddJob_submit
  \/ \E k \in CardKeys : btnSearch_click(k)
  \/ alert_dismiss

SpecE2E == E2EInit /\ [][E2ENext]_vars

\* no job, one candidate, the Jobs page shown
ModalInit == CardOff /\ StartCand(0, DocId(1), "old cv", "jobs", MaxModalOps)

\* the Jobs and Candidates pages when the user only opens and closes the
\* modals and submits their forms
ModalNext ==
  \/ \E i \in Slots, kind \in RespKinds : server_answer(i, kind)
  \/ \E i \in Slots : loadJobs_resume(i)
  \/ \E i \in Slots : ensure_resume(i)
  \/ \E i \in Slots : loadCandidates_resume(i)
  \/ \E i \in Slots : create_post_resume(i)
  \/ \E i \in Slots : candCreate_upload_resume(i)
  \/ \E i \in Slots : candCreate_post_resume(i)
  \/ \E name \in ListPages : nav_click(name)
  \/ btnAddJob_click
  \/ formAddJob_submit
  \/ btnAddCandidate_click
  \/ \E e \in CandEntries : formCand_input(e)
  \/ formAddCandidate_submit
  \/ \E which \in {"job", "cand"} : dataClose_click(which)
  \/ backdrop_click
  \/ alert_dismiss

SpecModal == ModalInit /\ [][ModalNext]_vars

(* ============ earlier controller version (src/unnamed/part_001) ======= *)
\* jobCard(job): the header texts, the three disabled fields, the Edit button
jobCard(job) ==
  [job |-> job,
   title |-> HtmlText(escapeHtml(job.job_title)),
   subtitle |-> HtmlText(escapeHtml(job.company_name)),
   vTitle |-> HtmlText(escapeHtml(job.job_title)),
   vCompany |-> HtmlText(escapeHtml(job.company_name)),
   vDesc |-> HtmlText(escapeHtml(job.job_description)),
   disabled |-> TRUE,
   btn |-> "Edit"]

\* candidateCard(c): the header text, the card collapsed, the <pre> empty
\* (this version has no nested card: cvExpanded and nFetch stay as built)
candidateCard(c) ==
  [c |-> c,
   title |-> HtmlText(escapeHtml(IF c.candidate_name # <<>> THEN c.candidate_name
                                 ELSE <<"(Unnamed)">>)),
   expanded |-> FALSE,
   cvExpanded |-> FALSE,
   pre |-> "",
   nFetch |-> 0]

V1Card(cardFn, it) == IF cardFn = "jobCard" THEN jobCard(it) ELSE candidateCard(it)

\* items.forEach(it => container.appendChild(cardFn(it))): the new cards go
\* behind whatever the container holds
v1_appendCards(container, items, cardFn) ==
  LET old == DOMAIN container.nodes
      keys == FreshKeys(old, Len(items))
  IN Container([k \in old \cup SeqToSet(keys) |->
                  IF k \in old THEN container.nodes[k]
                  ELSE V1Card(cardFn, items[CHOOSE n \in DOMAIN keys : keys[n] = k])],
               container.list \o keys)

\* loadJobs of part_001, after `await fetchJobs()`: the cards are appended,
\* then ensureSearchJobs (the container was emptied when loadJobs was called)
v1_loadJobs_resume(i) ==
  /\ Answered(i) /\ run[i].at = "loadJobs.fetchJobs"
  /\ LET h == run[i]
         r == v1_appendCards(Container(cards, jobList), FetchJobsValue(h.resp), "jobCard")
     IN
     IF FetchJobsThrows(h.resp)
       THEN /\ Throw(i, h)
            /\ UNCHANGED <<cards, jobList>>
       ELSE /\ run' = RunSet(i, Await(h, "loadJobs.ensure", GetJobs))
            /\ jobList' = r.list
            /\ cards' = r.nodes
            /\ faults' = faults \cup SilentLog(h)
            /\ UNCHANGED alertNow
  /\ UNCHANGED <<srvJobs, srvNextId, srvCands, candList, sel, searchInfo, page,
                 modal, formJob, budget>>
  /\ UNCHANGED <<cardVars, candVars>>

\* ensureSearchJobs of part_001, after `await fetchJobs()`, and the rest of
\* the caller up to its next await: init calls loadCandidates, which
\* empties #candidates-list and fetches; the submit listener preselects
\* when the Search page is visible; the last step of init shows the home
\* page
v1_ensure_resume(i) ==
  /\ Answered(i)
  /\ run[i].at \in {"loadJobs.ensure", "init.ensure", "create.ensure"}
  /\ LET h == run[i]
         jobs == FetchJobsValue(h.resp)
         s1 == EnsureSelect(jobs, sel)
     IN
     IF FetchJobsThrows(h.resp)
       THEN /\ Throw(i, h)
            /\ UNCHANGED <<sel, searchInfo, page, candList, ccards>>
       ELSE
         /\ faults' = faults \cup SilentLog(h)
         /\ UNCHANGED alertNow
         /\ CASE h.at = "loadJobs.ensure" /\ h.op = "init" ->
                   /\ run' = RunSet(i, Await(h, "loadCandidates.fetch", GetCandidates))
                   /\ sel' = s1 /\ searchInfo' = EnsureInfo(jobs, sel)
                   /\ candList' = <<>> /\ ccards' = <<>>
                   /\ UNCHANGED page
              [] h.at = "loadJobs.ensure" /\ h.op = "create" ->
                   /\ run' = IF page = "search"
                               THEN RunSet(i, Await(h, "create.ensure", GetJobs))
                               ELSE RunDel(i)
                   /\ sel' = s1 /\ searchInfo' = EnsureInfo(jobs, sel)
                   /\ UNCHANGED <<page, candList, ccards>>
              [] h.at = "init.ensure" ->
                   /\ run' = RunDel(i)
                   /\ sel' = s1 /\ searchInfo' = EnsureInfo(jobs, sel)
                   /\ page' = "home"
                   /\ UNCHANGED <<candList, ccards>>
              [] h.at = "create.ensure" ->
                   /\ run' = RunSet(i, Await(h, "create.fetchJobs", GetJobs))
                   /\ sel' = [s1 EXCEPT !.value = SetSelectValue(s1.options, h.jobId)]
                   /\ searchInfo' = EnsureInfo(jobs, sel)
                   /\ UNCHANGED <<page, candList, ccards>>
  /\ UNCHANGED <<srvJobs, srvNextId, srvCands, cards, jobList,
                 modal, formJob, budget>>
  /\ UNCHANGED <<cardVars, srvDocs, srvNextCand, formCand>>

\* loadCandidates of part_001, after `await fetchCandidates()`: the cards
\* are appended; init goes on to ensureSearchJobs, the submit listener ends
v1_loadCandidates_resume(i) ==
  /\ Answered(i) /\ run[i].at = "loadCandidates.fetch"
  /\ LET h == run[i]
         r == v1_appendCards(Container(ccards, candList), FetchJobsValue(h.resp),
                             "candidateCard")
     IN
     IF FetchJobsThrows(h.resp)
       THEN /\ Throw(i, h)
            /\ UNCHANGED <<ccards, candList>>
       ELSE /\ run' = IF h.op = "init" THEN RunSet(i, Await(h, "init.ensure", GetJobs))
                      ELSE RunDel(i)
            /\ candList' = r.list
            /\ ccards' = r.nodes
            /\ faults' = faults \cup SilentLog(h)
            /\ UNCHANGED alertNow
  /\ UNCHANGED <<srvJobs, srvNextId, srvCands, cards, jobList, sel,
                 searchInfo, page, modal, formJob, budget>>
  /\ UNCHANGED <<cardVars, srvDocs, srvNextCand, formCand>>

\* the submit listener of #form-add-job of part_001, after the POST: on 2xx
\* the modal is closed, the form reset and loadJobs called, which empties
\* #jobs-list and fetches
v1_create_post_resume(i) ==
  /\ Answered(i) /\ run[i].at = "create.post"
  /\ LET h == run[i] IN
     CASE h.resp.kind = "neterr" ->
            /\ Throw(i, h)
            /\ UNCHANGED <<modal, formJob, cards, jobList>>
       [] h.resp.kind = "http" ->
            /\ run' = RunDel(i)
            /\ alertNow' = "Failed to add job"
            /\ UNCHANGED <<faults, modal, formJob, cards, jobList>>
       [] h.resp.kind = "ok" ->
            /\ run' = RunSet(i, [Await(h, "loadJobs.fetchJobs", GetJobs)
                                   EXCEPT !.jobId = h.resp.id])
            /\ modal' = closeModal(modal, "job")
            /\ formJob' = EmptyForm
            /\ jobList' = <<>> /\ cards' = <<>>
            /\ UNCHANGED <<alertNow, faults>>
  /\ UNCHANGED <<srvJobs, srvNextId, srvCands, candList,
                 sel, searchInfo, page, budget>>
  /\ UNCHANGED <<cardVars, candVars>>

\* the submit listener of #form-add-candidate of part_001, after the POST
\* of the candidate: on 2xx the modal is closed, the form reset and
\* loadCandidates called, which empties #candidates-list and fetches
v1_candCreate_post_resume(i) ==
  /\ Answered(i) /\ run[i].at = "candCreate.post"
  /\ LET h == run[i] IN
     CASE h.resp.kind = "neterr" ->
            /\ Throw(i, h)
            /\ UNCHANGED <<modal, formCand, ccards, candList>>
       [] h.resp.kind = "http" ->
            /\ run' = RunDel(i)
            /\ alertNow' = "Failed to create candidate"
            /\ UNCHANGED <<faults, modal, formCand, ccards, candList>>
       [] h.resp.kind = "ok" ->
            /\ run' = RunSet(i, Await(h, "loadCandidates.fetch", GetCandidates))
            /\ modal' = closeModal(modal, "cand")
            /\ formCand' = EmptyCandForm
            /\ candList' = <<>> /\ ccards' = <<>>
            /\ UNCHANGED <<alertNow, faults>>
  /\ UNCHANGED <<srvJobs, srvNextId, srvCands, cards, jobList,
                 sel, searchInfo, page, formJob, budget>>
  /\ UNCHANGED <<cardVars, srvDocs, srvNextCand>>

\* one job and one candidate on the server, the Jobs page shown
V1Init == CardOff /\ StartCand(1, DocId(1), "old cv", "jobs", MaxV1Ops)

\* part_001 when the user only creates jobs and candidates (the modal,
\* form and navigation listeners are those of cards.js, line for line)
V1Next ==
  \/ \E i \in Slots, kind \in RespKinds : server_answer(i, kind)
  \/ \E i \in Slots : v1_loadJobs_resume(i)
  \/ \E i \in Slots : v1_ensure_resume(i)
  \/ \E i \in Slots : v1_loadCandidates_resume(i)
  \/ \E i \in Slots : v1_create_post_resume(i)
  \/ \E i \in Slots : candCreate_upload_resume(i)
  \/ \E i \in Slots : v1_candCreate_post_resume(i)
  \/ \E name \in ListPages : nav_click(name)
  \/ btnAddJob_click
  \/ formAddJob_submit
  \/ btnAddCandidate_click
  \/ \E e \in CandEntries : formCand_input(e)
  \/ formAddCandidate_submit
  \/ alert_dismiss

SpecV1 == V1Init /\ [][V1Next]_vars

(* -------------------------- specifications ----------------------------- *)
CardNext ==
  \/ \E c \in Configs : makeCard_begin(c)
  \/ makeCard_initial
  \/ makeCard_return
  \/ header_click
  \/ \E key \in Keys : header_keydown(key)
  \/ hook_toggle
  \/ hook_return

CardInit == CardOff /\ JobsOff

SpecCard == CardInit /\ [][CardNext]_vars

(* ------------------------ card factory: claims ------------------------- *)
Frames == {stack[i] : i \in DOMAIN stack}
Ceil2(k) == (k + 1) \div 2
Floor2(k) == k \div 2
\* toggles since makeCard returned
kToggles == nToggle - atReturn.nToggle

\* C1: a card built with a truthy id has had onInit invoked exactly once,
\* during makeCard, and no header toggle (click, Enter, Space), however many,
\* invokes it again.
C1_InitExactlyOnce ==
  /\ (phase \in {"building", "live"} /\ cfg.onInit) => nInit = 1
  /\ (phase \in {"none", "threw"} \/ ~cfg.onInit) => nInit = 0
C1_Witness ==
  phase = "live" /\ cfg.onInit /\ kToggles >= 3 /\ nInit = 1

\* C2: every toggle flips the card between Collapsed and Expanded and fires
\* the one hook of the new state: after k toggles of a card that was returned
\* collapsed, onExpand has fired ceil(k/2) times, onCollapse floor(k/2) times,
\* and the card is expanded iff k is odd.
C2_TogglesAlternate ==
  (phase = "live" /\ ~atReturn.expanded) =>
     /\ expanded <=> (kToggles % 2 = 1)
     /\ cfg.onExpand => nExpand - atReturn.nExpand = Ceil2(kToggles)
     /\ cfg.onCollapse => nCollapse - atReturn.nCollapse = Floor2(kToggles)
C2_Witness ==
  /\ phase = "live" /\ ~atReturn.expanded /\ cfg.onExpand /\ cfg.onCollapse
  /\ kToggles = 3 /\ expanded
  /\ nExpand - atReturn.nExpand = 2 /\ nCollapse - atReturn.nCollapse = 1

FalsyIds == {JsUndefined, JsNull, JsStr(""), JsNum(0)}

\* C3: makeCard with a missing or falsy id (undefined, null, '', 0) throws:
\* no card is returned and none of onInit, onExpand, onCollapse is invoked.
C3_FalsyIdThrows ==
  /\ (phase # "none" /\ cfg.id \in FalsyIds) =>
        /\ phase = "threw"
        /\ nInit = 0 /\ nExpand = 0 /\ nCollapse = 0 /\ stack = <<>>
  /\ phase = "threw" => cfg.id \in FalsyIds
C3_Witness ==
  phase = "threw" /\ cfg.id = JsNum(0) /\ cfg.onInit /\ cfg.onExpand /\ cfg.initiallyExpanded

\* C4: onExpand is never invoked for a card that was already expanded
\* immediately before the invocation, and onCollapse never for a card that
\* was already collapsed, whatever the construction, the header toggles and
\* the toggles made by hooks (a toggle inside onInit included).
C4_NoDoubleFire ==
  \A f \in Frames :
     /\ f.hook = "onExpand" => ~f.pre
     /\ f.hook = "onCollapse" => f.pre

\* C5: with initiallyExpanded true, onInit is called before the first
\* onExpand, and when onInit is entered the root does not carry 'expanded'.
C5_InitBeforeInitialState ==
  (cfg.onInit /\ cfg.initiallyExpanded /\ phase \in {"building", "live"}) =>
     /\ nExpand > 0 => nInit = 1
     /\ \A f \in Frames : f.hook = "onInit" => ~f.cls
     /\ mkpc \in {"return", "done"} => nInit = 1
C5_Witness ==
  /\ cfg.onInit /\ cfg.initiallyExpanded /\ cfg.onExpand
  /\ mkpc = "return" /\ nInit = 1 /\ nExpand = 1 /\ nToggle = 0
  /\ \E f \in Frames : f.hook = "onExpand"

\* C6: a hook is entered with the visual state already changed: onExpand
\* finds the class 'expanded' on the root; onCollapse finds it removed and
\* the header's aria-expanded equal to 'false'.
C6_HookSeesNewState ==
  \A f \in Frames :
     /\ f.hook = "onExpand" => f.cls
     /\ f.hook = "onCollapse" => (~f.cls /\ f.aria = "false")
C6_Witness ==
  /\ \E f \in Frames : f.hook = "onCollapse" /\ ~f.cls /\ f.aria = "false"
  /\ \E f \in Frames : f.hook = "onExpand" /\ f.cls

\* C7: the header's aria-expanded is 'false' in every state of a card, the
\* expanded ones included: only the collapse path writes it.
C7_AriaAlwaysFalse ==
  phase \in {"building", "live"} => aria = "false"
C7_Witness ==
  phase = "live" /\ expanded /\ aria = "false" /\ kToggles >= 1

(* ---------------------- page controller: claims ------------------------ *)
\* ids of the jobs whose cards are mounted in #jobs-list, in order
ShownIds == [n \in DOMAIN jobList |-> cards[jobList[n]].job.id]
\* no listener is suspended at an await or blocked in an alert() box
Quiet == run = <<>> /\ alertNow = ""

\* C8: once no handler is in flight, the rendered jobs list shows exactly the
\* jobs stored on the server, whatever mutations and list loads happened and
\* however their requests and responses interleaved.
C8_ListShowsServerJobs ==
  Quiet => ShownIds = Ids(srvJobs)

\* C9: every failed network operation (non-2xx or rejected fetch) of every
\* controller operation raises an alert: none escapes its handler uncaught,
\* none is silently taken for an empty result.
C9_EveryFailureAlerts ==
  faults = {}

\* C10: when a job PATCH succeeds, the in-memory record's three fields and
\* the header title and subtitle equal the values sent in the PATCH body,
\* and the record's id is unchanged, whatever Edit clicks and field edits
\* happened while the PATCH was in flight.
C10_PatchWritesWhatWasSent ==
  [][\A i \in DOMAIN run :
       (edit_patch_resume(i) /\ run[i].resp.kind = "ok" /\ run[i].card \in DOMAIN cards') =>
          LET c == cards'[run[i].card]
              sent == run[i].sent
          IN /\ c.job.job_title = sent.job_title
             /\ c.job.company_name = sent.company_name
             /\ c.job.job_description = sent.job_description
             /\ c.title = sent.job_title
             /\ c.subtitle = sent.company_name
             /\ c.job.id = cards[run[i].card].job.id]_vars

\* C11: when the PATCH sent by Save fails (non-2xx or rejected), an alert is
\* raised and the card is still in edit mode: its fields are enabled and its
\* button reads 'Save'.
C11_FailedSaveKeepsEditMode ==
  [][\A i \in DOMAIN run :
       (edit_patch_resume(i) /\ run[i].resp.kind # "ok") =>
          /\ alertNow' = "Failed to save job"
          /\ run[i].card \in DOMAIN cards' =>
                /\ ~cards'[run[i].card].disabled
                /\ cards'[run[i].card].btn = "Save"]_vars

\* the row of the server's jobs table with the id of record j, as a card
\* that was just saved shows it
Stored(j) ==
  LET row == Find(srvJobs, j.id) IN
    [job |-> row, title |-> row.job_title, subtitle |-> row.company_name]

\* C12: when the PATCH sent by Save fails, the record of the card and the
\* title and subtitle of its header are what they were before the edit that
\* Save ended (or, when another Save of the card went through meanwhile,
\* what that Save stored on the server): nothing unsaved is shown.
C12_FailedSaveKeepsPriorValues ==
  [][\A i \in DOMAIN run :
       (edit_patch_resume(i) /\ run[i].resp.kind # "ok" /\ run[i].card \in DOMAIN cards') =>
          \/ Shown(cards'[run[i].card]) = run[i].before
          \/ Shown(cards'[run[i].card]) = Stored(cards'[run[i].card].job)]_vars

\* the selection the selector must show after a rebuild from `jobs` when
\* `curr` was selected before
C16_Expected(jobs, curr) ==
  IF \E n \in DOMAIN jobs : jobs[n].id = curr THEN curr
  ELSE IF jobs # <<>> THEN jobs[1].id
  ELSE ""

\* C16: every rebuild of the job selector leaves as options exactly the
\* fetched jobs, in fetched order; the selected value is the one selected
\* before when a fetched job has that id, otherwise the first job's id, and
\* nothing for an empty list. (Where the caller assigns the value right after
\* the rebuild, the options are compared.)
C16_SelectorRebuild ==
  [][\A i \in DOMAIN run :
       (ensure_resume(i) /\ ~FetchJobsThrows(run[i].resp)) =>
          LET jobs == FetchJobsValue(run[i].resp) IN
            /\ Len(sel'.options) = Len(jobs)
            /\ \A n \in DOMAIN jobs :
                  /\ sel'.options[n].value = jobs[n].id
                  /\ sel'.options[n].label = OptionLabel(jobs[n])
            /\ run[i].at \in {"loadJobs.ensure", "init.ensure"} =>
                  sel'.value = C16_Expected(jobs, sel.value)]_vars
\* the user picked the second job while init() was still running; the last
\* ensureSearchJobs of init() rebuilt the selector and kept that selection
C16_Witness ==
  /\ page = "home" /\ budget = MaxSelectOps - 2
  /\ Len(sel.options) = 2 /\ sel.value = JobId(2)
  /\ \E i \in DOMAIN run : run[i].op = "change"
  /\ \A i \in DOMAIN run : run[i].op # "init"

\* C17: when the handler of a successful job mutation has finished, the
\* selector shows the jobs as that mutation left them: the created job (if
\* still on the server) is an option, the edited job's option carries the
\* title and company that were saved, the deleted job is no option. (For
\* create and delete: when the fetch of the rebuild itself succeeded.)
C17_SelectorFollowsMutations ==
  [][\A i \in DOMAIN run :
       /\ (edit_patch_resume(i) /\ run[i].resp.kind = "ok") =>
             \A n \in DOMAIN sel'.options :
                sel'.options[n].value = run[i].req.id =>
                   sel'.options[n].label = OptionLabel(run[i].sent)
       /\ (ensure_resume(i) /\ run[i].op = "create" /\ Len(run') < Len(run)
              /\ run[i].resp.kind = "ok"
              /\ \E m \in DOMAIN srvJobs : srvJobs[m].id = run[i].jobId) =>
             \E n \in DOMAIN sel'.options : sel'.options[n].value = run[i].jobId
       /\ (ensure_resume(i) /\ run[i].op = "delete" /\ Len(run') < Len(run)
              /\ run[i].resp.kind = "ok") =>
             \A n \in DOMAIN sel'.options :
                sel'.options[n].value # cards[run[i].card].job.id]_vars

(* ----------------------- candidates page: claims ----------------------- *)
\* C13: however often a candidate card and its nested CV card are expanded
\* and collapsed, the onExpand hooks of the two cards together issue at most
\* one document fetch per card as long as no new file is chosen for upload,
\* also while the first fetch is in flight and when the content is empty.
C13_FetchOnce ==
  \A k \in DOMAIN ccards : ccards[k].nFetch <= 1

\* a step in which a handler of listener `op` sends the request it awaits at
\* `reload`
Reloads(op, reload, n) ==
  /\ n \in DOMAIN run' /\ Len(run') = Len(run)
  /\ run'[n].op = op /\ run'[n].at = reload /\ run[n].at # reload

\* C14: when the DELETE of a job or candidate fails (non-2xx or rejected),
\* the listener raises its alert and ends without a reload, and the mounted
\* list and its cards are as before; a delete listener sends its reload GET
\* only from the step that received a 2xx answer to its DELETE.
C14_FailedDeleteKeepsItem ==
  [][/\ \A i \in DOMAIN run :
          /\ (delete_resume(i) /\ run[i].resp.kind # "ok") =>
                /\ alertNow' = "Failed to delete job"
                /\ run' = RunDel(i)
                /\ jobList' = jobList
                /\ \A k \in SeqToSet(jobList) : cards'[k] = cards[k]
          /\ (candDelete_resume(i) /\ run[i].resp.kind # "ok") =>
                /\ alertNow' = "Failed to delete candidate"
                /\ run' = RunDel(i)
                /\ candList' = candList
                /\ \A k \in SeqToSet(candList) : ccards'[k] = ccards[k]
     /\ \A n \in DOMAIN run' :
          /\ Reloads("delete", "loadJobs.fetchJobs", n) =>
                run[n].at = "delete.delete" /\ run[n].resp.kind = "ok"
          /\ Reloads("candDelete", "loadCandidates.fetch", n) =>
                run[n].at = "candDelete.delete" /\ run[n].resp.kind = "ok"]_vars
\* the alert of a failed DELETE of a job is on screen: the job is still on
\* the server, its card is mounted, the listener has ended
C14_Witness ==
  /\ alertNow = "Failed to delete job"
  /\ Ids(srvJobs) = <<JobId(1), JobId(2)>>
  /\ ShownIds = <<JobId(1), JobId(2)>>
  /\ \A i \in DOMAIN run : run[i].op # "delete"

\* C15: the change listener of the file input sends the candidate PATCH only
\* from the step that received a 2xx answer to the upload, with the returned
\* document id as candidate_cv_id; the record's candidate_cv_id changes only
\* in the step that received a 2xx answer to that PATCH, to the id sent; when
\* the upload or the PATCH fails the listener alerts and ends, and the
\* record's candidate_cv_id and the text of the <pre> are as before.
C15_UploadOrdered ==
  [][/\ \A n \in DOMAIN run' :
          Reloads("upload", "upload.patch", n) =>
             /\ run[n].at = "upload.post" /\ run[n].resp.kind = "ok"
             /\ run'[n].req = Req("PATCH", "/candidates", ccards[run[n].card].c.id)
             /\ run'[n].sent.candidate_cv_id = run[n].resp.id
             /\ \E m \in DOMAIN srvDocs : srvDocs[m].id = run[n].resp.id
     /\ candList' = candList =>
          \A k \in DOMAIN ccards \cap DOMAIN ccards' :
             ccards'[k].c.candidate_cv_id # ccards[k].c.candidate_cv_id =>
                \E i \in DOMAIN run :
                   /\ upload_patch_resume(i) /\ run[i].card = k
                   /\ run[i].resp.kind = "ok"
                   /\ ccards'[k].c.candidate_cv_id = run[i].sent.candidate_cv_id
     /\ \A i \in DOMAIN run :
          ((upload_post_resume(i) \/ upload_patch_resume(i)) /\ run[i].resp.kind # "ok") =>
             /\ alertNow' = "Failed to upload/link CV"
             /\ run' = RunDel(i)
             /\ run[i].card \in DOMAIN ccards' =>
                   /\ ccards'[run[i].card].c = ccards[run[i].card].c
                   /\ ccards'[run[i].card].pre = ccards[run[i].card].pre]_vars
\* the upload of a new CV for candidate c1 went through: document d2 exists,
\* the PATCH linked it on the server, the record carries it, and the
\* listener is fetching the document
C15_Witness ==
  \E i \in DOMAIN run :
     /\ run[i].op = "upload" /\ run[i].at = "upload.doc"
     /\ run[i].req = GetDocument(DocId(2))
     /\ ccards[run[i].card].c.candidate_cv_id = DocId(2)
     /\ srvCands[1].candidate_cv_id = DocId(2)

\* C18: a list load that received N items leaves exactly N card nodes in
\* its container, the n-th built from the n-th item and carrying its id; a
\* card of the earlier render that a listener still holds is no longer
\* mounted, and every mounted card is as just built.
C18_ListRender ==
  [][\A i \in DOMAIN run :
       /\ (loadJobs_resume(i) /\ ~FetchJobsThrows(run[i].resp)) =>
             LET items == FetchJobsValue(run[i].resp) IN
               /\ Len(jobList') = Len(items)
               /\ Cardinality(SeqToSet(jobList')) = Len(items)
               /\ \A n \in DOMAIN items :
                     /\ cards'[jobList'[n]].job.id = items[n].id
                     /\ cards'[jobList'[n]] = buildJobCard(items[n])
               /\ SeqToSet(jobList') \cap Referenced(run) = {}
       /\ (loadCandidates_resume(i) /\ ~FetchJobsThrows(run[i].resp)) =>
             LET items == FetchJobsValue(run[i].resp) IN
               /\ Len(candList') = Len(items)
               /\ Cardinality(SeqToSet(candList')) = Len(items)
               /\ \A n \in DOMAIN items :
                     /\ ccards'[candList'[n]].c.id = items[n].id
                     /\ ccards'[candList'[n]] = buildCandidateCard(items[n])
               /\ SeqToSet(candList') \cap CandReferenced(run) = {}]_vars
\* the reload of a Delete listener has rendered the one job left of two: the
\* card whose Delete was clicked, still held by the listener, is not mounted
C18_Witness ==
  \E i \in DOMAIN run :
     /\ run[i].op = "delete" /\ run[i].at = "loadJobs.ensure"
     /\ Len(jobList) = 1 /\ ShownIds = Ids(srvJobs)
     /\ run[i].card \in DOMAIN cards /\ run[i].card \notin SeqToSet(jobList)
     /\ cards[run[i].card].job.id \notin SeqToSet(ShownIds)

\* C19: the submit listeners close their modal, reset their form and send
\* the reload GET in the step that received a 2xx answer to the create POST,
\* and in no other (the job listener's reload rebuilds the selector too); on
\* a non-2xx answer they alert and end, modal and form as they are, nothing
\* reloaded. The candidate POST is sent only from the step that received a
\* 2xx answer to the upload, with the form's name and the returned id.
C19_CreateThenReload ==
  [][/\ \A i \in DOMAIN run :
          /\ (create_post_resume(i) /\ run[i].resp.kind = "ok") =>
                /\ ~modal'.job /\ ~modal'.backdrop /\ formJob' = EmptyForm
                /\ run'[i].at = "loadJobs.fetchJobs" /\ run'[i].req = GetJobs
          /\ (create_post_resume(i) /\ run[i].resp.kind = "http") =>
                /\ alertNow' = "Failed to add job"
                /\ modal' = modal /\ formJob' = formJob
                /\ run' = RunDel(i) /\ jobList' = jobList
          /\ (ensure_resume(i) /\ run[i].op = "create" /\ ~FetchJobsThrows(run[i].resp)) =>
                Ids(FetchJobsValue(run[i].resp)) = [n \in DOMAIN sel'.options |-> sel'.options[n].value]
          /\ (candCreate_post_resume(i) /\ run[i].resp.kind = "ok") =>
                /\ ~modal'.cand /\ ~modal'.backdrop /\ formCand' = EmptyCandForm
                /\ run'[i].at = "loadCandidates.fetch" /\ run'[i].req = GetCandidates
          /\ ((candCreate_post_resume(i) \/ candCreate_upload_resume(i))
                 /\ run[i].resp.kind = "http") =>
                /\ alertNow' = (IF run[i].at = "candCreate.post"
                                  THEN "Failed to create candidate"
                                  ELSE "Failed to upload document")
                /\ modal' = modal /\ formCand' = formCand
                /\ run' = RunDel(i) /\ candList' = candList
     /\ \A n \in DOMAIN run' :
          /\ Reloads("create", "loadJobs.fetchJobs", n) =>
                run[n].at = "create.post" /\ run[n].resp.kind = "ok"
          /\ Reloads("candCreate", "loadCandidates.fetch", n) =>
                run[n].at = "candCreate.post" /\ run[n].resp.kind = "ok"
          /\ Reloads("candCreate", "candCreate.post", n) =>
                /\ run[n].at = "candCreate.upload" /\ run[n].resp.kind = "ok"
                /\ run'[n].req = Req("POST", "/candidates", "")
                /\ run'[n].sent.candidate_cv_id = run[n].resp.id
                /\ run'[n].sent.candidate_name = run[n].sent.candidate_name
                /\ \E m \in DOMAIN srvDocs : srvDocs[m].id = run[n].resp.id]_vars
\* candidate c2 was created with the uploaded document d2: the modal is
\* closed, the form is reset and the listener is reloading the list
C19_Witness ==
  \E i \in DOMAIN run :
     /\ run[i].op = "candCreate" /\ run[i].at = "loadCandidates.fetch"
     /\ ~modal.cand /\ formCand = EmptyCandForm
     /\ Len(srvCands) = 2 /\ srvCands[2] = Cand(CandId(2), <<"Bo">>, DocId(2))
     /\ srvDocs[2] = Doc(DocId(2), "new cv")

\* C20: a Delete click whose confirmation is declined sends nothing and
\* changes nothing: no handler is started, the server's tables, the mounted
\* lists, the card objects with their records, and the selector stay as
\* they are.
C20_DeclinedDeleteChangesNothing ==
  [][\A k \in CardKeys :
       (btnDelete_click(k, FALSE) \/ candDelete_click(k, FALSE)) =>
          UNCHANGED <<run, srvJobs, srvCands, srvDocs, cards, jobList, ccards, candList,
                      sel, searchInfo, alertNow>>]_vars
\* one user event, on the Jobs page while init() is still running, that
\* left page, modals, forms, list and selector alone: a Delete click on the
\* card of a job that started no handler
C20_Witness ==
  /\ budget = MaxDeleteOps - 1 /\ page = "jobs" /\ alertNow = ""
  /\ Len(run) = 1 /\ run[1].op = "init" /\ run[1].resp = Pending
  /\ modal = [backdrop |-> FALSE, job |-> FALSE, cand |-> FALSE]
  /\ formJob = EmptyForm /\ formCand = EmptyCandForm
  /\ ShownIds = <<JobId(1), JobId(2)>> /\ Ids(srvJobs) = ShownIds
  /\ Len(sel.options) = 2

(* ----------------------- end-to-end scenario: claims -------------------- *)
\* t occurs in s as a run of consecutive atoms
Contains(s, t) ==
  \E n \in 0..(Len(s) - Len(t)) : SubSeq(s, n + 1, n + Len(t)) = t

\* C21: when the Search action of the card of a created job with title
\* 'Engineer' and company 'Acme' has run (the job still listed by the server),
\* the Search page is the visible page, the selector's value is that job's
\* id, and the info line contains the text 'Engineer', em dash, 'Acme'.
C21_EndToEnd ==
  [][\A i \in DOMAIN run :
       (/\ ensure_resume(i) /\ run[i].at = "search.ensure"
        /\ run[i].resp.kind = "ok"
        /\ cards[run[i].card].job.job_title = <<"Engineer">>
        /\ cards[run[i].card].job.company_name = <<"Acme">>
        /\ Find(run[i].resp.items, cards[run[i].card].job.id) = cards[run[i].card].job) =>
          /\ page' = "search"
          /\ sel'.value = cards[run[i].card].job.id
          /\ Contains(searchInfo', OptionLabel(cards[run[i].card].job))]_vars

(* -------------------- card factory: construction ----------------------- *)
\* state hooks makeCard is to invoke for configuration c: onExpand once when
\* the card starts expanded and onExpand is a function
InitialExpands(c) == IF c.initiallyExpanded /\ c.onExpand THEN 1 ELSE 0

ShowsDocumentText(cd) == cd.pre \notin {"", "(No CV)"}

\* C23: whenever no listener of a mounted candidate card is suspended and
\* the card's CV region shows document text, that text is the content of the
\* document the record's candidate_cv_id refers to.
C23_CvTextIsCurrent ==
  \A k \in SeqToSet(candList) \ CandReferenced(run) :
     ShowsDocumentText(ccards[k]) =>
        \E n \in DOMAIN srvDocs :
           /\ srvDocs[n].id = ccards[k].c.candidate_cv_id
           /\ srvDocs[n].content = ccards[k].pre

(* ------------------------- info line: claims --------------------------- *)
\* the info line for the job an option label was made from: the prefix,
\* and ' @ ' where the label has its separator
InfoOfLabel(label) ==
  <<"Selected: ">> \o [n \in DOMAIN label |-> IF label[n] = LabelSep THEN " @ " ELSE label[n]]

\* C24: in every state with no handler in flight, the info line describes
\* the selected option: when the selector has no value it reads 'No job
\* selected.' (or is still as the markup left it), otherwise it names the
\* title and company of the option whose value is the selector's value.
C24_InfoDescribesSelection ==
  Quiet =>
     IF sel.value = "" THEN searchInfo \in {<<>>, <<"No job selected.">>}
     ELSE \E n \in DOMAIN sel.options :
             /\ sel.options[n].value = sel.value
             /\ searchInfo = InfoOfLabel(sel.options[n].label)

(* ---------------------------- modals: claims --------------------------- *)
\* C25: the backdrop is visible exactly when at least one of the two modals
\* is visible.
C25_BackdropIffModal ==
  modal.backdrop <=> (modal.job \/ modal.cand)

(* ------------------------ delete alerts: claims ------------------------ *)
\* the server holds a row with this id
OnServer(table, id) == \E n \in DOMAIN table : table[n].id = id

\* C26: a step of a Delete listener that raises 'Failed to delete job'
\* (resp. 'Failed to delete candidate') is the step that received the answer
\* to the DELETE, that answer is not 2xx, and the item is still on the
\* server.
C26_DeleteAlertMeansNotDeleted ==
  [][\A i \in DOMAIN run :
       /\ (/\ run[i].op = "delete" /\ run'= RunDel(i)
           /\ alertNow = "" /\ alertNow' = "Failed to delete job") =>
             /\ run[i].at = "delete.delete" /\ run[i].resp.kind # "ok"
             /\ OnServer(srvJobs, cards[run[i].card].job.id)
       /\ (/\ run[i].op = "candDelete" /\ run'= RunDel(i)
           /\ alertNow = "" /\ alertNow' = "Failed to delete candidate") =>
             /\ run[i].at = "candDelete.delete" /\ run[i].resp.kind # "ok"
             /\ OnServer(srvCands, ccards[run[i].card].c.id)]_vars

(* ------------------------- nested card: claims ------------------------- *)
\* handlers started by the step
Started == {run'[n] : n \in DOMAIN run' \ DOMAIN run}

\* C27: a toggle of the nested CV card flips the nested card's expanded
\* state and leaves the candidate card's alone, and what it starts is the
\* nested card's onExpand only; a toggle of the candidate card flips the
\* candidate card's state and leaves the nested card's alone, and what it
\* starts is the candidate card's onExpand only.
C27_NestedToggleFrame ==
  [][\A k \in CardKeys :
       /\ cv_toggle(k) =>
             /\ ccards'[k].cvExpanded = ~ccards[k].cvExpanded
             /\ ccards'[k].expanded = ccards[k].expanded
             /\ \A h \in Started : h.op = "cvExpand" /\ h.card = k
             /\ \A j \in DOMAIN ccards \ {k} : ccards'[j] = ccards[j]
       /\ cand_toggle(k) =>
             /\ ccards'[k].expanded = ~ccards[k].expanded
             /\ ccards'[k].cvExpanded = ccards[k].cvExpanded
             /\ \A h \in Started : h.op = "expand" /\ h.card = k
             /\ \A j \in DOMAIN ccards \ {k} : ccards'[j] = ccards[j]]_vars
\* the nested card was expanded, then the candidate card collapsed: the
\* nested card keeps its state
C27_Witness ==
  \E k \in SeqToSet(candList) : ~ccards[k].expanded /\ ccards[k].cvExpanded

(* --------------------- earlier controller: claims ---------------------- *)
\* ids of the candidates whose cards are mounted in #candidates-list
CandShownIds == [n \in DOMAIN candList |-> ccards[candList[n]].c.id]

\* C28: in part_001, when a loadJobs (resp. loadCandidates) call whose GET
\* succeeded has put its cards into the list, the list holds the cards of
\* that fetch response and no others: one card per fetched item, in order.
C28_V1LoadReplacesList ==
  [][\A i \in DOMAIN run :
       /\ (v1_loadJobs_resume(i) /\ run[i].resp.kind = "ok") =>
             ShownIds' = Ids(FetchJobsValue(run[i].resp))
       /\ (v1_loadCandidates_resume(i) /\ run[i].resp.kind = "ok") =>
             CandShownIds' = Ids(FetchJobsValue(run[i].resp))]_vars

====
